---- MODULE Spec2Model ----
(***************************************************************************)
(* Model of the pane monitor of coder-tools: the App state of src/app.rs   *)
(* (pane_states, selection, filters), the pane source of src/tmux.rs and   *)
(* the monitor loop of src/main.rs.                                        *)
(*                                                                         *)
(* Time is the monotonic clock in ticks; TicksPerSec ticks make one second *)
(* so that Duration::as_secs (a floor) is modelled as a division.          *)
(***************************************************************************)
EXTENDS Integers, Sequences, FiniteSets, TLC

VARIABLES
    pane_states,      \* App.pane_states: pane id -> PaneState (a function on the live ids)
    selected_index,   \* App.selected_index
    show_all_panes,   \* App.show_all_panes
    status_filter,    \* App.status_filter (NoneStr when unset)
    self_pane_id,     \* App.self_pane_id (NoneStr when TMUX_PANE is not set)
    now,              \* the monotonic clock, in ticks
    pc,               \* position of run_monitor_app: "init", "loop" or "done"
    exit_result,      \* the Result run_monitor_app returned when pc = "done"
    batch,            \* what tmux did and the Result of tmux::list_panes, when the
                      \* handler that just ran was a refresh (NoBatch otherwise)
    notifications,    \* the Vec that refresh returned
    exported,         \* the ExportData, when the handler that just ran was an export
    vanished,         \* history, kept by SpecVanish only: the ids whose record was
                      \* dropped at some time
    notify_enabled,   \* run_monitor_app's parameter notify_enabled
    jump_enabled,     \* run_monitor_app's parameter jump_enabled
    delivered,        \* what the loop over the Vec that refresh returned did: the
                      \* events it notified and the events it jumped to
    event_log,        \* history, kept by SpecOneShot only: for every pane id, how
                      \* many events it had and whether a merge observed it as
                      \* Working since the last of them
    files,            \* the file system as cost.rs sees it: whether the home
                      \* directory is known, and the session directory under
                      \* ~/.claude/projects with its entries
    created_at,       \* history, kept by SpecAged only: for every record, the
                      \* reading of the clock when it was inserted
    disk,             \* the files ~/.claude/settings.json and settings.json.bak
                      \* that hooks.rs reads and writes, and whether HOME is set
    call,             \* the function of the library that is called outside the
                      \* loop of the monitor, with its arguments
    ret               \* what the last call of such a function returned, and
                      \* the calls it made

vars == <<pane_states, selected_index, show_all_panes, status_filter,
          self_pane_id, now, pc, exit_result, batch, notifications, exported, vanished,
          notify_enabled, jump_enabled, delivered, event_log, files,
          created_at, disk, call, ret>>

\* The variables of the monitor
monitor == <<pane_states, selected_index, show_all_panes, status_filter,
             self_pane_id, now, pc, exit_result, batch, notifications, exported,
             vanished, notify_enabled, jump_enabled, delivered, event_log, files,
             created_at>>

\* The variables of the functions called outside the loop of the monitor
library == <<disk, call, ret>>

----------------------------------------------------------------------------
(* Bounds of the model *)

MaxTime == 4          \* the clock stops at this many ticks
MaxChanges == 2       \* a record's state_changes never goes beyond this
MaxDrift == 1         \* ticks that may pass between the clock reads of one export
MaxEvents == 2        \* the history of a pane's events is kept up to this many
MaxFiles == 2         \* a session directory has at most this many entries
MaxLines == 2         \* a session log has at most this many lines
MaxCalls == 2         \* the hooks are checked at most this many times
MaxLogLines == 3      \* the scanned end of a debug log has at most this many lines
ScanWindow == 2       \* .take(50) of parse_debug_state, scaled down to the logs

TicksPerSec == 2      \* resolution of the modelled clock

NoneStr == "None"     \* Option::None of a string or of a Status
None == <<>>          \* Option::None of a struct
Some(x) == <<x>>      \* Option::Some of a struct

PaneIds == {"%0", "%1"}    \* the panes the tmux server can have

Statuses == {"Working", "WaitingForInput", "PermissionRequired", "NotDetected"}

\* The raw tab-separated fields tmux prints for @agent_provider and
\* @agent_status; an empty field is an unset option.
RawFields ==
    { <<"", "working">>, <<"claude", "working">>, <<"claude", "waiting">>,
      <<"claude", "permission">>, <<"gemini", "idle">> }

\* No agent runs in the pane of the monitor itself
RawFieldsOf(id, self_id) == IF id = self_id THEN { <<"", "">> } ELSE RawFields

\* The window layout tmux reports (session, window index, pane index).
Layout ==
    [id \in PaneIds |->
        IF id = "%0" THEN [session_name |-> "dev", window_index |-> 1, pane_index |-> 0]
                     ELSE [session_name |-> "dev", window_index |-> 0, pane_index |-> 1]]

----------------------------------------------------------------------------
(* Helpers *)

\* Duration::as_secs
as_secs(d) == d \div TicksPerSec

\* Instant::elapsed, read when the clock shows t (saturating at zero)
elapsed(instant, t) == IF t >= instant THEN t - instant ELSE 0

RECURSIVE SeqContains(_, _)
SeqContains(s, x) ==
    IF s = <<>> THEN FALSE
    ELSE IF Head(s) = x THEN TRUE ELSE SeqContains(Tail(s), x)

\* All sequences without repetition over the subsets of S
RECURSIVE Perms(_)
Perms(S) ==
    IF S = {} THEN { <<>> }
    ELSE UNION { { <<x>> \o p : p \in Perms(S \ {x}) } : x \in S }

----------------------------------------------------------------------------
(* tmux::list_panes *)

\* An empty tab-separated field is None, any other is Some(field)
OptField(s) == IF s = "" THEN NoneStr ELSE s

\* The fields #{pane_current_path} and #{@agent_task} tmux prints for a pane
\* (a path is the sequence of its characters)
current_path(id) == IF id = "%1" THEN <<"/", "s", "/", "a">> ELSE <<"/", "h">>
agent_task(id) == IF id = "%1" THEN "fix the bug" ELSE NoneStr

\* One parsed line of the list-panes output
MkPane(id, raw) ==
    [ id             |-> id,
      current_path   |-> current_path(id),
      agent_task     |-> agent_task(id),
      session_name   |-> Layout[id].session_name,
      window_index   |-> Layout[id].window_index,
      pane_index     |-> Layout[id].pane_index,
      agent_provider |-> OptField(raw[1]),
      agent_status   |-> OptField(raw[2]) ]

\* Every output tmux can print: the panes of any subset of PaneIds, each id
\* once, in any order, with any raw option fields.
TmuxLines(self_id) ==
    UNION { UNION { { [i \in 1..Len(order) |-> MkPane(order[i], f[order[i]])]
                      : f \in { g \in [ids -> RawFields \cup { <<"", "">> }] :
                                  \A id \in ids : g[id] \in RawFieldsOf(id, self_id) } }
                    : order \in Perms(ids) }
            : ids \in SUBSET PaneIds }

\* What the tmux subprocess can do: print its panes, fail because no server
\* is running, or fail otherwise (or not start at all).
TmuxRuns(self_id) ==
    { [outcome |-> "success", lines |-> l] : l \in TmuxLines(self_id) }
      \cup { [outcome |-> "no_server", lines |-> <<>>],
             [outcome |-> "failed", lines |-> <<>>] }

\* The same for a server whose panes all carry option fields of one set, seen
\* by a monitor that runs outside tmux
TmuxRunsWith(fields) ==
    { [outcome |-> "success", lines |-> l] :
        l \in UNION { UNION { { [i \in 1..Len(order) |-> MkPane(order[i], f[order[i]])]
                                 : f \in [ids -> fields] }
                               : order \in Perms(ids) }
                       : ids \in SUBSET PaneIds } }
      \cup { [outcome |-> "no_server", lines |-> <<>>],
             [outcome |-> "failed", lines |-> <<>>] }

\* A server with the one pane %1, whose process changes its working directory
\* and whose agent changes
MovedPaths == { current_path("%1"), <<"/", "t">> }

MovedFields == { <<"claude", "working">>, <<"claude", "waiting">>, <<"gemini", "idle">> }

MovedRuns ==
    { [outcome |-> "success", lines |-> <<>>], [outcome |-> "failed", lines |-> <<>>] }
      \cup { [outcome |-> "success",
              lines |-> << [MkPane("%1", raw) EXCEPT !.current_path = path] >>] :
               raw \in MovedFields, path \in MovedPaths }

\* A server where every pane runs claude
PairFields == { <<"claude", "working">>, <<"claude", "waiting">>,
                <<"claude", "permission">> }
PairRuns == TmuxRunsWith(PairFields)

\* A server whose panes run claude, working or waiting, or no agent
ViewFields == { <<"", "working">>, <<"claude", "working">>, <<"claude", "waiting">> }
ViewRuns == TmuxRunsWith(ViewFields)

\* TmuxRuns, computed once for every value of TMUX_PANE
TmuxRunsOf == [self_id \in PaneIds \cup {NoneStr} |-> TmuxRuns(self_id)]

\* The Result of list_panes: Err, or Ok with the parsed panes
ErrResult == [ok |-> FALSE, panes |-> <<>>]
OkResult(panes) == [ok |-> TRUE, panes |-> panes]

list_panes_empty_on_failure(outcome, lines) ==
    IF outcome = "success" THEN OkResult(lines) ELSE OkResult(<<>>)

list_panes(outcome, lines) ==
    CASE outcome = "success"   -> OkResult(lines)
      [] outcome = "no_server" -> OkResult(<<>>)
      [] OTHER                 -> ErrResult

----------------------------------------------------------------------------
(* DetectionResult::from_pane and Status::label *)

from_pane(agent_provider, agent_status) ==
    IF agent_provider = NoneStr THEN "NotDetected"
    ELSE CASE agent_status = "working"    -> "Working"
           [] agent_status = "waiting"    -> "WaitingForInput"
           [] agent_status = "permission" -> "PermissionRequired"
           [] OTHER                       -> "NotDetected"

label(status) ==
    CASE status = "WaitingForInput"    -> "Waiting for input"
      [] status = "PermissionRequired" -> "Permission required"
      [] status = "Working"            -> "Working"
      [] OTHER                         -> "Not detected"

----------------------------------------------------------------------------
(* App::refresh *)

NewPaneState_previous_set(pane, status, t_stamp) ==
    [ pane                  |-> pane,
      status                |-> status,
      status_changed_at     |-> t_stamp,
      previous_status       |-> status,
      total_working_secs    |-> 0,
      total_waiting_secs    |-> 0,
      total_permission_secs |-> 0,
      state_changes         |-> 0,
      tokens                |-> None ]

\* Lines 167-175: PaneStats::default with the other fields of a new PaneState
NewPaneState(pane, status, t_stamp) ==
    [ pane                  |-> pane,
      status                |-> status,
      status_changed_at     |-> t_stamp,
      previous_status       |-> NoneStr,
      total_working_secs    |-> 0,
      total_waiting_secs    |-> 0,
      total_permission_secs |-> 0,
      state_changes         |-> 0,
      tokens                |-> None ]

Accumulate_swapped(existing, elapsed_secs) ==
    CASE existing.status = "Working" ->
            [existing EXCEPT !.total_waiting_secs = @ + elapsed_secs]
      [] existing.status = "WaitingForInput" ->
            [existing EXCEPT !.total_working_secs = @ + elapsed_secs]
      [] existing.status = "PermissionRequired" ->
            [existing EXCEPT !.total_permission_secs = @ + elapsed_secs]
      [] OTHER -> existing

\* The match of lines 134-141: the elapsed seconds go to the old status
Accumulate(existing, elapsed_secs) ==
    CASE existing.status = "Working" ->
            [existing EXCEPT !.total_working_secs = @ + elapsed_secs]
      [] existing.status = "WaitingForInput" ->
            [existing EXCEPT !.total_waiting_secs = @ + elapsed_secs]
      [] existing.status = "PermissionRequired" ->
            [existing EXCEPT !.total_permission_secs = @ + elapsed_secs]
      [] OTHER -> existing

ShouldNotify_any_active(old_status, new_status) ==
    /\ old_status # "NotDetected"
    /\ new_status \in {"WaitingForInput", "PermissionRequired"}

ShouldNotify_on_change(old_status, new_status) ==
    new_status \in {"WaitingForInput", "PermissionRequired"}

\* The condition of lines 145-147
ShouldNotify(old_status, new_status) ==
    /\ old_status = "Working"
    /\ new_status \in {"WaitingForInput", "PermissionRequired"}

Notification(pane, status) ==
    [ session_name  |-> pane.session_name,
      window_index  |-> pane.window_index,
      pane_index    |-> pane.pane_index,
      is_permission |-> (status = "PermissionRequired") ]

UpdateExisting_always_stamps(existing, pane, status, t_read, t_stamp) ==
    LET elapsed_secs == as_secs(elapsed(existing.status_changed_at, t_read))
        acc == IF existing.status # status
               THEN [Accumulate(existing, elapsed_secs) EXCEPT
                        !.state_changes = @ + 1,
                        !.previous_status = existing.status]
               ELSE existing
    IN  [acc EXCEPT !.status_changed_at = t_stamp, !.pane = pane, !.status = status]

UpdateExisting_fresh_stats(existing, pane, status, t_read, t_stamp) ==
    IF existing.status # status
    THEN LET elapsed_secs == as_secs(elapsed(existing.status_changed_at, t_read))
             acc == Accumulate([existing EXCEPT !.total_working_secs = 0,
                                                !.total_waiting_secs = 0,
                                                !.total_permission_secs = 0],
                               elapsed_secs)
         IN  [acc EXCEPT !.state_changes = @ + 1,
                         !.previous_status = existing.status,
                         !.status_changed_at = t_stamp,
                         !.pane = pane,
                         !.status = status]
    ELSE [existing EXCEPT !.pane = pane, !.status = status]

UpdateExisting_with_table(existing, pane, status, t_read, t_stamp) ==
    IF existing.status = "NotDetected" /\ status = "PermissionRequired"
    THEN [existing EXCEPT !.pane = pane]
    ELSE IF existing.status # status
    THEN LET elapsed_secs == as_secs(elapsed(existing.status_changed_at, t_read))
             acc == Accumulate(existing, elapsed_secs)
         IN  [acc EXCEPT !.state_changes = @ + 1,
                         !.previous_status = existing.status,
                         !.status_changed_at = t_stamp,
                         !.pane = pane,
                         !.status = status]
    ELSE [existing EXCEPT !.pane = pane, !.status = status]

\* Lines 127-162: the record of a pane that was already known.  t_read is the
\* clock when elapsed() is read, t_stamp when Instant::now() is stored.
UpdateExisting_keeps_previous(existing, pane, status, t_read, t_stamp) ==
    IF existing.status # status
    THEN LET elapsed_secs == as_secs(elapsed(existing.status_changed_at, t_read))
             acc == Accumulate(existing, elapsed_secs)
         IN  [acc EXCEPT !.state_changes = @ + 1,
                         !.status_changed_at = t_stamp,
                         !.pane = pane,
                         !.status = status]
    ELSE [existing EXCEPT !.pane = pane, !.status = status]

UpdateExisting_keeps_stamp(existing, pane, status, t_read, t_stamp) ==
    IF existing.status # status
    THEN LET elapsed_secs == as_secs(elapsed(existing.status_changed_at, t_read))
             acc == Accumulate(existing, elapsed_secs)
         IN  [acc EXCEPT !.state_changes = @ + 1,
                         !.previous_status = existing.status,
                         !.pane = pane,
                         !.status = status]
    ELSE [existing EXCEPT !.pane = pane, !.status = status]

UpdateExisting_forgets_usage(existing, pane, status, t_read, t_stamp) ==
    IF existing.status # status
    THEN LET elapsed_secs == as_secs(elapsed(existing.status_changed_at, t_read))
             acc == Accumulate(existing, elapsed_secs)
         IN  [acc EXCEPT !.state_changes = @ + 1,
                         !.previous_status = existing.status,
                         !.status_changed_at = t_stamp,
                         !.pane = pane,
                         !.status = status,
                         !.tokens = None]
    ELSE [existing EXCEPT !.pane = pane, !.status = status,
                          !.tokens = IF pane = existing.pane THEN @ ELSE None]

UpdateExisting(existing, pane, status, t_read, t_stamp) ==
    IF existing.status # status
    THEN LET elapsed_secs == as_secs(elapsed(existing.status_changed_at, t_read))
             acc == Accumulate(existing, elapsed_secs)
         IN  [acc EXCEPT !.state_changes = @ + 1,
                         !.previous_status = existing.status,
                         !.status_changed_at = t_stamp,
                         !.pane = pane,
                         !.status = status]
    ELSE [existing EXCEPT !.pane = pane, !.status = status]

IsSelf_never(pane, self_id) == FALSE

\* Line 105: the pane of the monitor itself
IsSelf(pane, self_id) == self_id # NoneStr /\ pane.id = self_id

\* Lines 103-178: the loop over the panes; acc is [states, seen_ids, notifications]
RECURSIVE MergePanes(_, _, _, _, _)
MergePanes(acc, panes, self_id, t_read, t_stamp) ==
    IF panes = <<>> THEN acc
    ELSE
      LET pane == Head(panes)
          status == from_pane(pane.agent_provider, pane.agent_status)
          next ==
            IF IsSelf(pane, self_id) THEN acc
            ELSE IF pane.id \in DOMAIN acc.states
            THEN LET existing == acc.states[pane.id] IN
                 [ states |-> [acc.states EXCEPT ![pane.id] =
                                  UpdateExisting(existing, pane, status, t_read, t_stamp)],
                   seen_ids |-> Append(acc.seen_ids, pane.id),
                   notifications |->
                      IF existing.status # status /\ ShouldNotify(existing.status, status)
                      THEN Append(acc.notifications, Notification(pane, status))
                      ELSE acc.notifications ]
            ELSE [ states |-> (pane.id :> NewPaneState(pane, status, t_stamp)) @@ acc.states,
                   seen_ids |-> Append(acc.seen_ids, pane.id),
                   notifications |-> acc.notifications ]
      IN MergePanes(next, Tail(panes), self_id, t_read, t_stamp)

Retain_keep_all(states, seen_ids) == states

Retain_only_last(states, seen_ids) ==
    [id \in {i \in DOMAIN states :
                seen_ids # <<>> /\ i = seen_ids[Len(seen_ids)]} |-> states[id]]

\* Line 181: pane_states.retain(|id, _| seen_ids.contains(id))
Retain(states, seen_ids) ==
    [id \in {i \in DOMAIN states : SeqContains(seen_ids, i)} |-> states[id]]

----------------------------------------------------------------------------
(* App::visible_panes *)

status_order_waiting_first(s) ==
    CASE s = "PermissionRequired" -> 0
      [] s = "WaitingForInput"    -> 1
      [] s = "Working"            -> 2
      [] OTHER                    -> 3

\* The closure status_order of lines 205-210
status_order(s) ==
    CASE s = "PermissionRequired" -> 0
      [] s = "Working"            -> 1
      [] s = "WaitingForInput"    -> 2
      [] OTHER                    -> 3

\* String::cmp on the session names of the layout, as a rank
session_order(name) == IF name = "app" THEN 0 ELSE 1

\* The comparator of lines 212-216: a sorts strictly before b
SortsBefore(a, b) ==
    LET sa == status_order(a.status)  sb == status_order(b.status)
        na == session_order(a.pane.session_name)
        nb == session_order(b.pane.session_name)
    IN  \/ sa < sb
        \/ sa = sb /\ na < nb
        \/ sa = sb /\ na = nb /\ a.pane.window_index < b.pane.window_index
        \/ sa = sb /\ na = nb /\ a.pane.window_index = b.pane.window_index
              /\ a.pane.pane_index < b.pane.pane_index

IsVisible_shows_all(p, show_all, filter) ==
    filter = NoneStr \/ p.status = filter

\* The two filters of lines 196-200
IsVisible(p, show_all, filter) ==
    /\ show_all \/ p.status # "NotDetected"
    /\ filter = NoneStr \/ p.status = filter

RECURSIVE SortIds(_, _)
SortIds(states, ids) ==
    IF ids = {} THEN <<>>
    ELSE LET m == CHOOSE x \in ids :
                    \A y \in ids : ~SortsBefore(states[y], states[x])
         IN  <<m>> \o SortIds(states, ids \ {m})

\* The ids of the visible panes, in display order
visible_ids(states, show_all, filter) ==
    SortIds(states, {id \in DOMAIN states : IsVisible(states[id], show_all, filter)})

visible_panes(states, show_all, filter) ==
    LET ids == visible_ids(states, show_all, filter)
    IN  [i \in 1..Len(ids) |-> states[ids[i]]]

\* Lines 204-217: Vec::sort_by, a stable sort, on the Vec that the filters
\* collected from HashMap::values in the order the map stores them
RECURSIVE InsertSorted(_, _)
InsertSorted(x, sorted) ==
    IF sorted = <<>> THEN <<x>>
    ELSE IF ~SortsBefore(Head(sorted), x) THEN <<x>> \o sorted
    ELSE <<Head(sorted)>> \o InsertSorted(x, Tail(sorted))

RECURSIVE sort_by(_)
sort_by(panes) ==
    IF panes = <<>> THEN <<>>
    ELSE InsertSorted(Head(panes), sort_by(Tail(panes)))

\* Lines 183-187: the selection adjustment at the end of refresh
AdjustSelection(selected, visible_count) ==
    IF visible_count > 0 /\ selected >= visible_count
    THEN visible_count - 1
    ELSE selected

----------------------------------------------------------------------------
(* App::refresh as a whole, given the Ok batch of list_panes *)

refresh(states, panes, self_id, t_read, t_stamp) ==
    LET merged == MergePanes([states |-> states, seen_ids |-> <<>>,
                              notifications |-> <<>>],
                             panes, self_id, t_read, t_stamp)
    IN  [ states |-> Retain(merged.states, merged.seen_ids),
          notifications |-> merged.notifications ]

----------------------------------------------------------------------------
(* App::aggregated_stats, AggregatedStats::efficiency_percent, App::export_stats *)

CurrentBucket_not_detected_waits(status) ==
    CASE status = "Working"            -> "Working"
      [] status = "PermissionRequired" -> "PermissionRequired"
      [] OTHER                         -> "WaitingForInput"

\* The matches of lines 288-293 and 417-422: the total the current status adds to
CurrentBucket(status) ==
    CASE status = "Working"            -> "Working"
      [] status = "WaitingForInput"    -> "WaitingForInput"
      [] status = "PermissionRequired" -> "PermissionRequired"
      [] OTHER                         -> NoneStr

\* Lines 286-293 and 411-422: the open-ended time of the current status,
\* read when the clock shows t
CurrentSecs(p, bucket, t) ==
    IF CurrentBucket(p.status) = bucket
    THEN as_secs(elapsed(p.status_changed_at, t))
    ELSE 0

SumSeq_last(s) == IF s = <<>> THEN 0 ELSE s[Len(s)]

RECURSIVE SumSeq(_)
SumSeq(s) == IF s = <<>> THEN 0 ELSE Head(s) + SumSeq(Tail(s))

aggregated_stats(panes, t) ==
    [ pane_count |-> Len(panes),
      total_working_secs |->
          SumSeq([i \in 1..Len(panes) |->
                    panes[i].total_working_secs + CurrentSecs(panes[i], "Working", t)]),
      total_waiting_secs |->
          SumSeq([i \in 1..Len(panes) |->
                    panes[i].total_waiting_secs + CurrentSecs(panes[i], "WaitingForInput", t)]),
      total_permission_secs |->
          SumSeq([i \in 1..Len(panes) |->
                    panes[i].total_permission_secs
                      + CurrentSecs(panes[i], "PermissionRequired", t)]),
      total_state_changes |->
          SumSeq([i \in 1..Len(panes) |-> panes[i].state_changes]) ]

efficiency_percent_unguarded(stats) ==
    << stats.total_working_secs * 100,
       stats.total_working_secs + stats.total_waiting_secs + stats.total_permission_secs >>

\* The percentage as the pair <<numerator, denominator>>; <<0, 1>> is 0.0
efficiency_percent(stats) ==
    LET total == stats.total_working_secs + stats.total_waiting_secs
                   + stats.total_permission_secs
    IN  IF total = 0 THEN <<0, 1>> ELSE <<stats.total_working_secs * 100, total>>

\* DetectionResult.task: the task from_pane was given
task(p) == p.pane.agent_task

ExportPane_counters_only(p, t) ==
    [ session        |-> p.pane.session_name,
      window         |-> p.pane.window_index,
      pane           |-> p.pane.pane_index,
      path           |-> p.pane.current_path,
      current_status |-> label(p.status),
      task           |-> task(p),
      working_secs   |-> p.total_working_secs,
      waiting_secs   |-> p.total_waiting_secs,
      permission_secs |-> p.total_permission_secs,
      state_changes  |-> p.state_changes ]

ExportPane(p, t) ==
    [ session        |-> p.pane.session_name,
      window         |-> p.pane.window_index,
      pane           |-> p.pane.pane_index,
      path           |-> p.pane.current_path,
      current_status |-> label(p.status),
      task           |-> task(p),
      working_secs   |-> p.total_working_secs + CurrentSecs(p, "Working", t),
      waiting_secs   |-> p.total_waiting_secs + CurrentSecs(p, "WaitingForInput", t),
      permission_secs |-> p.total_permission_secs
                            + CurrentSecs(p, "PermissionRequired", t),
      state_changes  |-> p.state_changes ]

\* t_stats is the clock when aggregated_stats reads it, t_rows when the rows do
export_stats(panes, t_stats, t_rows) ==
    LET stats == aggregated_stats(panes, t_stats)
    IN  [ summary |->
            [ total_panes           |-> stats.pane_count,
              total_working_secs    |-> stats.total_working_secs,
              total_waiting_secs    |-> stats.total_waiting_secs,
              total_permission_secs |-> stats.total_permission_secs,
              total_state_changes   |-> stats.total_state_changes,
              efficiency_percent    |-> efficiency_percent(stats) ],
          panes |-> [i \in 1..Len(panes) |-> ExportPane(panes[i], t_rows)] ]

----------------------------------------------------------------------------
(* The handlers of App that only touch the selection and the filters *)

select_next_no_wrap(selected, count) ==
    IF count > 0 THEN selected + 1 ELSE selected

select_next(selected, count) ==
    IF count > 0 THEN (selected + 1) % count ELSE selected

select_previous_no_wrap(selected, count) ==
    IF count > 0
    THEN (IF selected = 0 THEN 0 ELSE selected - 1)
    ELSE selected

\* Lines 229-238
select_previous(selected, count) ==
    IF count > 0
    THEN (IF selected = 0 THEN count - 1 ELSE selected - 1)
    ELSE selected

\* Lines 319-322: panes.get(self.selected_index)
selected_pane(states, show_all, filter, selected) ==
    LET panes == visible_panes(states, show_all, filter)
    IN  IF selected < Len(panes) THEN Some(panes[selected + 1]) ELSE None

toggle_filter_working_only_sets(filter) == "Working"

\* Lines 250-256
toggle_filter_working(filter) ==
    IF filter = "Working" THEN NoneStr ELSE "Working"

toggle_filter_waiting(filter) ==
    IF filter = "WaitingForInput" THEN NoneStr ELSE "WaitingForInput"

----------------------------------------------------------------------------
(* App::refresh_costs *)

ZeroUsage ==
    [input_tokens |-> 0, output_tokens |-> 0,
     cache_read_tokens |-> 0, cache_write_tokens |-> 0]

\* cost.rs, lines 43-45: path.replace('/', "-")
hash_path(path) ==
    [i \in 1..Len(path) |-> IF path[i] = "/" THEN "-" ELSE path[i]]

\* claude_session.rs, lines 66-73
encode_path(path) ==
    [i \in 1..Len(path) |->
        IF path[i] \in {"/", "_", ".", " "} THEN "-" ELSE path[i]]

\* The lines of a session log.  A line is blank, is not JSON, or is a JSON
\* value with or without a usage object; a field of the usage object is None
\* when it is missing or not an unsigned integer.
BlankLine == [kind |-> "blank", usage |-> None]
MalformedLine == [kind |-> "malformed", usage |-> None]
JsonLine(usage) == [kind |-> "json", usage |-> usage]

UsageObject(input, output, cache_read, cache_creation) ==
    [ input_tokens                |-> input,
      output_tokens               |-> output,
      cache_read_input_tokens     |-> cache_read,
      cache_creation_input_tokens |-> cache_creation ]

\* Option<u64>::unwrap_or(0), as `if let Some(n) = .. { total += n }` uses it
OrZero(opt) == IF opt = None THEN 0 ELSE opt[1]

RECURSIVE ScanLines_stops_at_malformed(_, _)
ScanLines_stops_at_malformed(usage, lines) ==
    IF lines = <<>> \/ Head(lines).kind = "malformed" THEN usage
    ELSE LET line == Head(lines)
             next ==
               IF line.kind = "json" /\ line.usage # None
               THEN LET obj == line.usage[1] IN
                    [ input_tokens       |-> usage.input_tokens + OrZero(obj.input_tokens),
                      output_tokens      |-> usage.output_tokens + OrZero(obj.output_tokens),
                      cache_read_tokens  |-> usage.cache_read_tokens
                                               + OrZero(obj.cache_read_input_tokens),
                      cache_write_tokens |-> usage.cache_write_tokens
                                               + OrZero(obj.cache_creation_input_tokens) ]
               ELSE usage
         IN  ScanLines_stops_at_malformed(next, Tail(lines))

\* cost.rs, lines 82-105: the loop over content.lines()
RECURSIVE ScanLines(_, _)
ScanLines(usage, lines) ==
    IF lines = <<>> THEN usage
    ELSE LET line == Head(lines)
             next ==
               IF line.kind = "json" /\ line.usage # None
               THEN LET obj == line.usage[1] IN
                    [ input_tokens       |-> usage.input_tokens + OrZero(obj.input_tokens),
                      output_tokens      |-> usage.output_tokens + OrZero(obj.output_tokens),
                      cache_read_tokens  |-> usage.cache_read_tokens
                                               + OrZero(obj.cache_read_input_tokens),
                      cache_write_tokens |-> usage.cache_write_tokens
                                               + OrZero(obj.cache_creation_input_tokens) ]
               ELSE usage
         IN  ScanLines(next, Tail(lines))

\* cost.rs, lines 74-108; content is None when read_to_string fails
parse_jsonl_tokens(content) ==
    IF content = None THEN ZeroUsage ELSE ScanLines(ZeroUsage, content[1])

find_session_files_of_unreadable(working_dir, fs) ==
    IF ~fs.home THEN <<>>
    ELSE IF fs.session_dir = None \/ fs.session_dir[1].name # hash_path(working_dir)
    THEN <<>>
    ELSE LET entries == fs.session_dir[1].entries
         IN  SelectSeq([i \in 1..Len(entries) |-> i],
                       LAMBDA i : entries[i].ext = "jsonl")

\* cost.rs, lines 48-71: the positions, in the session directory, of the
\* entries with the extension jsonl
find_session_files(working_dir, fs) ==
    IF ~fs.home THEN <<>>
    ELSE IF fs.session_dir = None \/ fs.session_dir[1].name # hash_path(working_dir)
    THEN <<>>
    ELSE IF ~fs.session_dir[1].readable THEN <<>>
    ELSE LET entries == fs.session_dir[1].entries
         IN  SelectSeq([i \in 1..Len(entries) |-> i],
                       LAMBDA i : entries[i].ext = "jsonl")

most_recent_first_found(working_dir, fs) ==
    LET found == find_session_files(working_dir, fs)
        entries == fs.session_dir[1].entries
        dated == SelectSeq(found, LAMBDA i : entries[i].modified # 0)
    IN  IF dated = <<>> THEN None ELSE Some(dated[1])

\* cost.rs, lines 115-124: filter_map on the metadata (modified is 0 when
\* it cannot be read), then max_by_key, which returns the last maximum
most_recent(working_dir, fs) ==
    LET found == find_session_files(working_dir, fs)
        entries == fs.session_dir[1].entries
        dated == SelectSeq(found, LAMBDA i : entries[i].modified # 0)
    IN  IF dated = <<>> THEN None
        ELSE Some(CHOOSE i \in { dated[k] : k \in 1..Len(dated) } :
                    \A k \in 1..Len(dated) :
                       \/ entries[dated[k]].modified < entries[i].modified
                       \/ entries[dated[k]].modified = entries[i].modified
                            /\ dated[k] <= i)

\* cost.rs, lines 111-130
get_claude_usage(working_dir, fs) ==
    LET path == most_recent(working_dir, fs)
    IN  IF path = None THEN ZeroUsage
        ELSE parse_jsonl_tokens(fs.session_dir[1].entries[path[1]].content)

cost_usd_without_cache_reads(usage) ==
    usage.input_tokens * 300 + usage.output_tokens * 1500
      + usage.cache_write_tokens * 375

\* cost.rs, lines 24-30, in units of 10^-8 USD: 3 USD for a million tokens
\* are 300 units for one token
cost_usd(usage) ==
    usage.input_tokens * 300 + usage.output_tokens * 1500
      + usage.cache_read_tokens * 30 + usage.cache_write_tokens * 375

\* The file system when the session directory of pane %1 has one log of one
\* line
DefaultFiles ==
    [ home |-> TRUE,
      session_dir |->
        Some([ name |-> <<"-", "s", "-", "a">>,
               readable |-> TRUE,
               entries |-> << [ ext |-> "jsonl", modified |-> 1,
                                content |-> Some(<< JsonLine(Some(UsageObject(
                                               Some(1), Some(1), None, None))) >>) ] >> ]) ]

refresh_costs_drops_others(states, usage_of) ==
    [id \in {i \in DOMAIN states : states[i].pane.agent_provider = "claude"} |->
        [states[id] EXCEPT !.tokens = Some(usage_of[id])]]

\* usage_of gives, for each pane, what get_claude_usage returns for its path
refresh_costs(states, usage_of) ==
    [id \in DOMAIN states |->
        IF states[id].pane.agent_provider = "claude"
        THEN [states[id] EXCEPT !.tokens = Some(usage_of[id])]
        ELSE states[id]]

----------------------------------------------------------------------------
(* The state machine: run_monitor_app *)

NoExport == None
NoBatch == [run |-> "none", ok |-> FALSE, panes |-> <<>>]
NoDelivery == [sent |-> <<>>, jumps |-> <<>>]
NoLog == [id \in PaneIds |-> [events |-> 0, worked |-> FALSE]]

\* The variables of the monitor after App::new
InitApp(selfs, flags) ==
    /\ pane_states = <<>>
    /\ selected_index = 0
    /\ show_all_panes \in BOOLEAN
    /\ status_filter = NoneStr
    /\ self_pane_id \in selfs
    /\ now = 0
    /\ pc = "init"
    /\ exit_result = NoneStr
    /\ batch = NoBatch
    /\ notifications = <<>>
    /\ exported = NoExport
    /\ vanished = {}
    /\ notify_enabled \in flags
    /\ jump_enabled \in flags
    /\ delivered = NoDelivery
    /\ event_log = NoLog
    /\ files = DefaultFiles
    /\ created_at = <<>>

\* No settings file, no call, nothing returned
NoDisk == [home |-> TRUE, writable |-> TRUE, settings |-> None, backup |-> None]
NoCall == [fn |-> "none"]
NoRet == None

InitLibrary ==
    /\ disk = NoDisk
    /\ call = NoCall
    /\ ret = NoRet

\* App::new, before the initial refresh; selfs are the values TMUX_PANE can
\* have, flags the values of --notify and --jump
InitFlags(selfs, flags) ==
    /\ InitLibrary
    /\ InitApp(selfs, flags)

\* The monitor is not started while a function of the library is called
Unstarted == InitApp({NoneStr}, {FALSE}) /\ ~show_all_panes

InitWith(selfs) == InitFlags(selfs, {FALSE})

\* The places of a server with three panes in the sessions app and dev
Places ==
    << [session_name |-> "dev", window_index |-> 0, pane_index |-> 1],
       [session_name |-> "app", window_index |-> 1, pane_index |-> 0],
       [session_name |-> "dev", window_index |-> 0, pane_index |-> 0],
       [session_name |-> "app", window_index |-> 0, pane_index |-> 1],
       [session_name |-> "app", window_index |-> 1, pane_index |-> 1] >>

DrawnIds == {"%1", "%2", "%3"}

DrawnLayouts ==
    { [id \in DrawnIds |-> Places[g[id]]] :
        g \in { h \in [DrawnIds -> 1..Len(Places)] :
                   h["%1"] < h["%2"] /\ h["%2"] < h["%3"] } }

\* One raw pair of option fields for every Status
SortFields == PairFields \cup { <<"", "working">> }

\* One parsed line of the list-panes output for a pane at a place
MkPaneAt(id, place, raw) ==
    [ id             |-> id,
      current_path   |-> current_path(id),
      agent_task     |-> agent_task(id),
      session_name   |-> place.session_name,
      window_index   |-> place.window_index,
      pane_index     |-> place.pane_index,
      agent_provider |-> OptField(raw[1]),
      agent_status   |-> OptField(raw[2]) ]

\* The records after the first refresh next to such a server
DrawnStates ==
    { [id \in DrawnIds |->
          LET pane == MkPaneAt(id, l[id], f[id])
          IN  NewPaneState(pane, from_pane(pane.agent_provider, pane.agent_status), 0)]
      : l \in DrawnLayouts, f \in [DrawnIds -> SortFields] }

\* The records of two panes that were first seen right now, or were first
\* seen as Working a second ago and have just been merged again
SnapshotIds == {"%1", "%2"}

Histories(id) ==
    LET place == IF id = "%1" THEN Places[1] ELSE Places[2]
        started == NewPaneState(MkPaneAt(id, place, <<"claude", "working">>),
                                "Working", 0 - TicksPerSec)
    IN  UNION { LET pane == MkPaneAt(id, place, f)
                    status == from_pane(pane.agent_provider, pane.agent_status)
                IN  { NewPaneState(pane, status, 0),
                      UpdateExisting(started, pane, status, 0, 0) }
                : f \in SortFields }

SnapshotStates ==
    { h \in [SnapshotIds -> UNION { Histories(id) : id \in SnapshotIds }] :
        \A id \in SnapshotIds : h[id] \in Histories(id) }

\* The working directories of a claude pane; a run of characters other than
\* '/', '_', '.' and ' ' counts as one character
UsagePaths ==
    { <<"/", "s", "/", "a">>,
      <<"/", "Users", "/", "jiwan", "/", ".", "config", "/", "tmux">>,
      <<"/", "my", "_", "app", " ", "v2">> }

\* The lines a session log can have: the usage object of the last but two
\* has three of the four fields, the next the other two, the last none
LineKinds ==
    { BlankLine, MalformedLine, JsonLine(None),
      JsonLine(Some(UsageObject(Some(1000000), Some(100000), Some(500000), None))),
      JsonLine(Some(UsageObject(None, Some(2), None, Some(4)))),
      JsonLine(Some(UsageObject(None, None, None, None))) }

Contents == UNION { [1..n -> LineKinds] : n \in 0..MaxLines }

\* The entries the i-th place of a session directory can have: a log or
\* another file, with or without readable metadata, older or newer, readable
\* or not; the log at place i counts i input tokens
FileAt(i) ==
    { [ext |-> e, modified |-> m, content |-> c] :
        e \in {"jsonl", "txt"}, m \in {0, 1, 2},
        c \in { None, Some(<< JsonLine(Some(UsageObject(Some(i), None, None, None))) >>) } }

EntryLists ==
    UNION { { l \in [1..n -> UNION { FileAt(i) : i \in 1..n }] :
                \A i \in 1..n : l[i] \in FileAt(i) }
            : n \in 0..MaxFiles }

\* A log with readable metadata and one line of usage
GoodLog ==
    [ ext |-> "jsonl", modified |-> 1,
      content |-> Some(<< JsonLine(Some(UsageObject(Some(7), Some(5), None, None))) >>) ]

SessionDir(name, readable, entries) ==
    Some([name |-> name, readable |-> readable, entries |-> entries])

\* The file systems next to a pane that works in path: the home directory is
\* unknown; the session directory is missing, or has the name hash_path or
\* encode_path give, and cannot be read, or has any entries, or has one log
\* of any content
FilesOf(path) ==
    LET names == { hash_path(path), encode_path(path) } IN
    { [home |-> FALSE, session_dir |-> SessionDir(hash_path(path), TRUE, <<GoodLog>>)],
      [home |-> TRUE, session_dir |-> None] }
    \cup { [home |-> TRUE, session_dir |-> SessionDir(n, FALSE, <<GoodLog>>)] : n \in names }
    \cup { [home |-> TRUE, session_dir |-> SessionDir(n, TRUE, l)] :
             n \in names, l \in EntryLists }
    \cup { [home |-> TRUE,
            session_dir |-> SessionDir(n, TRUE,
                               << [ext |-> "jsonl", modified |-> 1, content |-> Some(c)] >>)] :
             n \in names, c \in Contents }

\* One claude pane that works in one of UsagePaths, and its file system
UsageWorlds ==
    UNION { { [ states |-> ("%1" :> NewPaneState(
                              [MkPaneAt("%1", Places[1], <<"claude", "working">>)
                                  EXCEPT !.current_path = path],
                              "Working", 0)),
                files |-> fs ] : fs \in FilesOf(path) }
            : path \in UsagePaths }

\* The loop of run_monitor_app after a first refresh that left the records
\* of one of states, with a file system of worlds for them
InitWorld(worlds) ==
    /\ \E w \in worlds : pane_states = w.states /\ files = w.files
    /\ InitLibrary
    /\ selected_index = 0
    /\ show_all_panes \in BOOLEAN
    /\ status_filter = NoneStr
    /\ self_pane_id = NoneStr
    /\ now = 0
    /\ pc = "loop"
    /\ exit_result = NoneStr
    /\ batch = NoBatch
    /\ notifications = <<>>
    /\ exported = NoExport
    /\ vanished = {}
    /\ notify_enabled = FALSE
    /\ jump_enabled = FALSE
    /\ delivered = NoDelivery
    /\ event_log = NoLog
    /\ created_at = <<>>

InitLoop(states) == InitWorld({ [states |-> st, files |-> DefaultFiles] : st \in states })

\* The clock moves on while the loop waits in event::poll
Tick ==
    /\ pc # "done"
    /\ now < MaxTime
    /\ now' = now + 1
    /\ batch' = NoBatch
    /\ notifications' = <<>>
    /\ exported' = NoExport
    /\ delivered' = NoDelivery
    /\ UNCHANGED <<pane_states, selected_index, show_all_panes, status_filter,
                   self_pane_id, pc, exit_result, vanished,
                   notify_enabled, jump_enabled, event_log, files, created_at>>
    /\ UNCHANGED library

\* app.refresh()? : list_panes, then the merge; an Err leaves run_monitor_app.
\* All clock reads of one merge fall into the same tick.  track says whether
\* the history variable vanished is kept, runs what the tmux subprocess can do.
DoRefreshFrom(runs, track) ==
    \E run \in runs :
        LET result == list_panes(run.outcome, run.lines) IN
        /\ batch' = [run |-> run.outcome, ok |-> result.ok, panes |-> result.panes]
        /\ exported' = NoExport
        /\ UNCHANGED <<show_all_panes, status_filter, self_pane_id,
                       notify_enabled, jump_enabled, files>>
        /\ UNCHANGED library
        /\ IF result.ok
           THEN LET r == refresh(pane_states, result.panes, self_pane_id, now, now)
                    count == Len(visible_ids(r.states, show_all_panes, status_filter))
                IN  /\ \A id \in DOMAIN r.states : r.states[id].state_changes <= MaxChanges
                    /\ pane_states' = r.states
                    /\ vanished' = IF track
                                   THEN vanished \cup (DOMAIN pane_states \ DOMAIN r.states)
                                   ELSE vanished
                    /\ notifications' = r.notifications
                    /\ selected_index' = AdjustSelection(selected_index, count)
                    /\ pc' = "loop"
                    /\ UNCHANGED <<exit_result, now>>
           ELSE /\ notifications' = <<>>
                /\ pc' = "done"
                /\ exit_result' = "Err"
                /\ UNCHANGED <<pane_states, selected_index, now, vanished>>

DoRefresh(track) == DoRefreshFrom(TmuxRunsOf[self_pane_id], track)

\* Lines 156-178 and 223-245: the loop over the Vec that refresh returned.
\* With jump_enabled the loop is left after its first round.
Deliver(events, notify, jump) ==
    LET handled == IF jump /\ events # <<>> THEN <<events[1]>> ELSE events
    IN  [ sent  |-> IF notify THEN handled ELSE <<>>,
          jumps |-> IF jump THEN handled ELSE <<>> ]

\* Line 141: the Vec of the initial refresh is dropped
InitialDelivery ==
    /\ delivered' = NoDelivery
    /\ UNCHANGED <<event_log, created_at>>

LoopDelivery ==
    /\ delivered' = IF batch'.ok
                    THEN Deliver(notifications', notify_enabled, jump_enabled)
                    ELSE NoDelivery
    /\ UNCHANGED <<event_log, created_at>>

\* Line 141: the initial refresh
InitialRefresh ==
    /\ pc = "init"
    /\ DoRefresh(FALSE)
    /\ InitialDelivery

\* Lines 155-179 and 222-247: the key 'r', or the poll timed out
LoopRefresh ==
    /\ pc = "loop"
    /\ DoRefresh(FALSE)
    /\ LoopDelivery

\* The same two handlers next to a server where every pane runs claude
InitialRefreshPair ==
    /\ pc = "init"
    /\ DoRefreshFrom(PairRuns, FALSE)
    /\ InitialDelivery

LoopRefreshPair ==
    /\ pc = "loop"
    /\ DoRefreshFrom(PairRuns, FALSE)
    /\ LoopDelivery

\* The same two handlers next to a server whose panes run claude or no agent
InitialRefreshView ==
    /\ pc = "init"
    /\ DoRefreshFrom(ViewRuns, FALSE)
    /\ InitialDelivery

LoopRefreshView ==
    /\ pc = "loop"
    /\ DoRefreshFrom(ViewRuns, FALSE)
    /\ LoopDelivery

\* The same two handlers, with the history of dropped ids kept
InitialRefreshTracked ==
    /\ pc = "init"
    /\ DoRefresh(TRUE)
    /\ InitialDelivery

LoopRefreshTracked ==
    /\ pc = "loop"
    /\ DoRefresh(TRUE)
    /\ LoopDelivery

\* What every handler but refresh leaves alone or resets
Handled ==
    /\ pc = "loop"
    /\ batch' = NoBatch
    /\ notifications' = <<>>
    /\ delivered' = NoDelivery
    /\ UNCHANGED <<self_pane_id, vanished, notify_enabled, jump_enabled, event_log,
                   files, created_at>>
    /\ UNCHANGED library

\* Lines 152-154: 'q' or Esc
KeyQuit ==
    /\ Handled
    /\ pc' = "done"
    /\ exit_result' = "Ok"
    /\ exported' = NoExport
    /\ UNCHANGED <<pane_states, selected_index, show_all_panes, status_filter, now>>

\* A handler after which the loop goes on
Stay ==
    /\ Handled
    /\ UNCHANGED <<pc, exit_result>>

VisibleCount == Len(visible_ids(pane_states, show_all_panes, status_filter))

\* Line 180: 'a'
KeyShowAll ==
    /\ Stay
    /\ show_all_panes' = ~show_all_panes
    /\ selected_index' = 0
    /\ exported' = NoExport
    /\ UNCHANGED <<pane_states, status_filter, now>>

\* Line 183: 'w'
KeyFilterWorking ==
    /\ Stay
    /\ status_filter' = toggle_filter_working(status_filter)
    /\ selected_index' = 0
    /\ exported' = NoExport
    /\ UNCHANGED <<pane_states, show_all_panes, now>>

\* Line 184: 'i'
KeyFilterWaiting ==
    /\ Stay
    /\ status_filter' = toggle_filter_waiting(status_filter)
    /\ selected_index' = 0
    /\ exported' = NoExport
    /\ UNCHANGED <<pane_states, show_all_panes, now>>

\* Line 182: '$'
KeyCosts ==
    /\ Stay
    /\ pane_states' =
          refresh_costs(pane_states,
                        [id \in DOMAIN pane_states |->
                           get_claude_usage(pane_states[id].pane.current_path, files)])
    /\ exported' = NoExport
    /\ UNCHANGED <<selected_index, show_all_panes, status_filter, now>>

\* Lines 187-193: 'e'
KeyExport ==
    /\ Stay
    /\ \E d \in 0..MaxDrift :
          /\ now + d <= MaxTime
          /\ exported' = Some(export_stats(
                 visible_panes(pane_states, show_all_panes, status_filter),
                 now, now + d))
          /\ now' = now + d
    /\ UNCHANGED <<pane_states, selected_index, show_all_panes, status_filter>>

\* Line 200: Down or 'j'
KeyNext ==
    /\ Stay
    /\ selected_index' = select_next(selected_index, VisibleCount)
    /\ exported' = NoExport
    /\ UNCHANGED <<pane_states, show_all_panes, status_filter, now>>

\* Line 201: Up or 'k'
KeyPrevious ==
    /\ Stay
    /\ selected_index' = select_previous(selected_index, VisibleCount)
    /\ exported' = NoExport
    /\ UNCHANGED <<pane_states, show_all_panes, status_filter, now>>

----------------------------------------------------------------------------
(* Specifications *)

\* The monitor runs in pane %0 of a server with one more pane, and time
\* passes: the accounting of durations over the life of one record.
Init == InitWith({"%0"})

Next ==
    \/ Tick
    \/ InitialRefresh
    \/ LoopRefresh
    \/ KeyQuit
    \/ KeyCosts
    \/ KeyExport

Spec == Init /\ [][Next]_vars

\* The monitor runs in pane %0 or outside tmux, so that two panes can be
\* tracked at once; all handlers run within one tick of the clock.
InitMulti == InitWith({NoneStr, "%0"})

NextMulti ==
    \/ InitialRefresh
    \/ LoopRefresh
    \/ KeyQuit

SpecMulti == InitMulti /\ [][NextMulti]_vars

\* As Spec, without the keys, and with the history of the dropped ids.
NextVanish ==
    \/ Tick
    \/ InitialRefreshTracked
    \/ LoopRefreshTracked
    \/ KeyQuit

SpecVanish == Init /\ [][NextVanish]_vars

\* The refresh handlers, with the instant of every insertion kept: a record
\* that is there before and after a merge is the same record (line 127), any
\* other record of the result was inserted by it (line 165)
Aged ==
    /\ delivered' = IF pc = "loop" /\ batch'.ok
                    THEN Deliver(notifications', notify_enabled, jump_enabled)
                    ELSE NoDelivery
    /\ created_at' = [id \in DOMAIN pane_states' |->
                        IF id \in DOMAIN pane_states THEN created_at[id] ELSE now]
    /\ UNCHANGED event_log

InitialRefreshAged ==
    /\ pc = "init"
    /\ DoRefresh(FALSE)
    /\ Aged

LoopRefreshAged ==
    /\ pc = "loop"
    /\ DoRefresh(FALSE)
    /\ Aged

\* As SpecVanish, with the history of the insertions instead
NextAged ==
    \/ Tick
    \/ InitialRefreshAged
    \/ LoopRefreshAged
    \/ KeyQuit

SpecAged == Init /\ [][NextAged]_vars

\* The monitor runs outside tmux next to two panes that run claude; all
\* handlers run within one tick of the clock.
InitPair == InitFlags({NoneStr}, {FALSE})

NextPair ==
    \/ InitialRefreshPair
    \/ LoopRefreshPair
    \/ KeyQuit

SpecPair == InitPair /\ [][NextPair]_vars

\* As SpecPair, with any setting of --notify and --jump
InitNotify == InitFlags({NoneStr}, BOOLEAN)

SpecNotify == InitNotify /\ [][NextPair]_vars

\* The monitor runs outside tmux next to two panes, within one tick of the
\* clock, and the keys of the filters and of the selection are pressed.
NextView ==
    \/ InitialRefreshView
    \/ LoopRefreshView
    \/ KeyQuit
    \/ KeyShowAll
    \/ KeyFilterWorking
    \/ KeyFilterWaiting
    \/ KeyNext
    \/ KeyPrevious

SpecView == InitPair /\ [][NextView]_vars

\* The monitor has seen three panes of one or two sessions, and the keys of
\* the filters and of the selection are pressed.
InitSorted == InitLoop(DrawnStates)

NextSorted ==
    \/ KeyQuit
    \/ KeyShowAll
    \/ KeyFilterWorking
    \/ KeyFilterWaiting
    \/ KeyNext
    \/ KeyPrevious

SpecSorted == InitSorted /\ [][NextSorted]_vars

\* The monitor has seen two panes, time passes, the keys of the filters are
\* pressed and the statistics are exported.
InitSnapshot == InitLoop(SnapshotStates)

NextSnapshot ==
    \/ Tick
    \/ KeyQuit
    \/ KeyShowAll
    \/ KeyFilterWorking
    \/ KeyFilterWaiting
    \/ KeyExport

SpecSnapshot == InitSnapshot /\ [][NextSnapshot]_vars

\* The monitor runs in pane %0 next to one more pane, within one tick of the
\* clock, and the key of the costs is pressed.
NextCosts ==
    \/ InitialRefresh
    \/ LoopRefresh
    \/ KeyQuit
    \/ KeyCosts

SpecCosts == Init /\ [][NextCosts]_vars

InitialRefreshMoved ==
    /\ pc = "init"
    /\ DoRefreshFrom(MovedRuns, FALSE)
    /\ InitialDelivery

LoopRefreshMoved ==
    /\ pc = "loop"
    /\ DoRefreshFrom(MovedRuns, FALSE)
    /\ LoopDelivery

\* As SpecCosts, next to a pane whose working directory and agent change
NextMoved ==
    \/ InitialRefreshMoved
    \/ LoopRefreshMoved
    \/ KeyQuit
    \/ KeyCosts

SpecMoved == Init /\ [][NextMoved]_vars

\* The monitor has seen one claude pane, next to any file system, and the
\* key of the costs is pressed.
InitUsage == InitWorld(UsageWorlds)

NextUsage ==
    \/ KeyQuit
    \/ KeyCosts

SpecUsage == InitUsage /\ [][NextUsage]_vars

----------------------------------------------------------------------------
(* Properties of the merge *)

\* The ids of the panes of a batch
BatchIds(b) == { b.panes[i].id : i \in 1..Len(b.panes) }

\* The ids of a batch that the merge tracks
TrackedIds(b, self_id) == BatchIds(b) \ {self_id}

\* The status the observation of id in batch b carries
Observed(b, id) ==
    LET i == CHOOSE j \in 1..Len(b.panes) : b.panes[j].id = id
    IN  from_pane(b.panes[i].agent_provider, b.panes[i].agent_status)

\* The positions of the events of a list that are about pane id
EventsFor(events, id) ==
    { i \in 1..Len(events) :
        /\ events[i].session_name = Layout[id].session_name
        /\ events[i].window_index = Layout[id].window_index
        /\ events[i].pane_index = Layout[id].pane_index }

\* C1: after every refresh that obtained a batch, the keys of pane_states are
\* exactly the ids of that batch without self_pane_id.
C1_KeysAreBatchIds ==
    batch.ok => DOMAIN pane_states = TrackedIds(batch, self_pane_id)

\* The monitor's own pane was in the batch with another pane, and only the
\* other one has a record.
C1_Witness ==
    /\ batch.ok
    /\ self_pane_id = "%0"
    /\ BatchIds(batch) = {"%0", "%1"}
    /\ DOMAIN pane_states = {"%1"}

\* C2: a merge emits exactly one event for a pane whose record had status
\* Working and that is now observed WaitingForInput or PermissionRequired,
\* with is_permission true exactly for PermissionRequired; it emits no event
\* for any other pane.
C2_EventsOfMerge ==
    [][ batch'.ok =>
          /\ \A id \in TrackedIds(batch', self_pane_id) :
               LET new == Observed(batch', id)
                   ev == EventsFor(notifications', id)
               IN  IF /\ id \in DOMAIN pane_states
                      /\ pane_states[id].status = "Working"
                      /\ new \in {"WaitingForInput", "PermissionRequired"}
                   THEN /\ Cardinality(ev) = 1
                        /\ \A i \in ev :
                             notifications'[i].is_permission
                               = (new = "PermissionRequired")
                   ELSE ev = {}
          /\ \A i \in 1..Len(notifications') :
               \E id \in TrackedIds(batch', self_pane_id) :
                   i \in EventsFor(notifications', id)
      ]_vars

\* One merge emitted a permission event for one pane and a ready event for
\* another.
C2_Witness ==
    /\ batch.ok
    /\ Len(notifications) = 2
    /\ notifications[1].is_permission
    /\ ~notifications[2].is_permission

\* The ids that have a record before and after the step
Surviving == (DOMAIN pane_states) \cap (DOMAIN pane_states')

\* C3: when a merge observes an existing pane with another status, the whole
\* seconds since status_changed_at go to the counter of the old status and to
\* no other, state_changes grows by 1, previous_status becomes the old status
\* and status_changed_at becomes the time of the merge.
C3_ChangeAccounting ==
    [][ batch'.ok =>
          \A id \in Surviving :
             LET old == pane_states[id]
                 new == pane_states'[id]
                 secs == (now' - old.status_changed_at) \div TicksPerSec
             IN  Observed(batch', id) # old.status =>
                   /\ new.total_working_secs = old.total_working_secs
                        + (IF old.status = "Working" THEN secs ELSE 0)
                   /\ new.total_waiting_secs = old.total_waiting_secs
                        + (IF old.status = "WaitingForInput" THEN secs ELSE 0)
                   /\ new.total_permission_secs = old.total_permission_secs
                        + (IF old.status = "PermissionRequired" THEN secs ELSE 0)
                   /\ new.state_changes = old.state_changes + 1
                   /\ new.previous_status = old.status
                   /\ new.status_changed_at = now'
                   /\ new.status = Observed(batch', id)
      ]_vars

\* A pane that was Working for two seconds has just been observed
\* WaitingForInput.
C3_Witness ==
    /\ batch.ok
    /\ "%1" \in DOMAIN pane_states
    /\ pane_states["%1"].status = "WaitingForInput"
    /\ pane_states["%1"].previous_status = "Working"
    /\ pane_states["%1"].state_changes = 1
    /\ pane_states["%1"].total_working_secs = 2
    /\ pane_states["%1"].status_changed_at = now

\* The batch of the step observes every pane that has a record, and no other,
\* with the status the record has
SameBatch ==
    /\ TrackedIds(batch', self_pane_id) = DOMAIN pane_states
    /\ \A id \in DOMAIN pane_states : Observed(batch', id) = pane_states[id].status

\* C4: a merge that observes an existing pane with its stored status leaves
\* the record's counters, state_changes, status_changed_at and
\* previous_status as they were, whatever time passed; re-merging an unchanged
\* batch keeps the id set and every record, and returns no event.
C4_SameStatusKeepsTimers ==
    [][ batch'.ok =>
          /\ \A id \in Surviving :
                LET old == pane_states[id]
                    new == pane_states'[id]
                IN  Observed(batch', id) = old.status =>
                      /\ new.total_working_secs = old.total_working_secs
                      /\ new.total_waiting_secs = old.total_waiting_secs
                      /\ new.total_permission_secs = old.total_permission_secs
                      /\ new.state_changes = old.state_changes
                      /\ new.status_changed_at = old.status_changed_at
                      /\ new.previous_status = old.previous_status
          /\ SameBatch =>
                /\ DOMAIN pane_states' = DOMAIN pane_states
                /\ \A id \in DOMAIN pane_states :
                      /\ pane_states'[id].total_working_secs
                           = pane_states[id].total_working_secs
                      /\ pane_states'[id].total_waiting_secs
                           = pane_states[id].total_waiting_secs
                      /\ pane_states'[id].total_permission_secs
                           = pane_states[id].total_permission_secs
                      /\ pane_states'[id].state_changes = pane_states[id].state_changes
                /\ notifications' = <<>>
      ]_vars

\* A pane first seen Working more than a second ago has just been merged
\* again, still Working.
C4_Witness ==
    /\ batch.ok
    /\ "%1" \in DOMAIN pane_states
    /\ pane_states["%1"].status = "Working"
    /\ pane_states["%1"].state_changes = 0
    /\ pane_states["%1"].status_changed_at + TicksPerSec < now

\* C5: when list_panes fails, refresh changes no record, adds and removes
\* none, leaves the selection and returns no event.
C5_FailedSourceChangesNothing ==
    [][ batch'.run = "failed" =>
          /\ pane_states' = pane_states
          /\ selected_index' = selected_index
          /\ show_all_panes' = show_all_panes
          /\ status_filter' = status_filter
          /\ notifications' = <<>>
      ]_vars

\* tmux failed while a record with accumulated time and a cached usage existed
C5_Witness ==
    /\ batch.run = "failed"
    /\ "%1" \in DOMAIN pane_states
    /\ pane_states["%1"].total_working_secs > 0
    /\ pane_states["%1"].tokens # None

\* C6: a failure of the pane source does not end the monitor loop.
C6_FailedSourceIsNotFatal ==
    batch.run = "failed" => pc = "loop"

\* A record as the first sighting of a pane makes it
IsFresh(rec, status, t) ==
    /\ rec.status = status
    /\ rec.previous_status = NoneStr
    /\ rec.status_changed_at = t
    /\ rec.total_working_secs = 0
    /\ rec.total_waiting_secs = 0
    /\ rec.total_permission_secs = 0
    /\ rec.state_changes = 0
    /\ rec.tokens = None

\* C7: a record is dropped by the first merge whose batch lacks its id; when
\* the id is in a later batch again the pane is a new one: zero counters and
\* state_changes, no previous_status, and no event whatever its status.
C7_DroppedThenNew ==
    [][ batch'.ok =>
          /\ \A id \in DOMAIN pane_states :
                id \notin BatchIds(batch') => id \notin DOMAIN pane_states'
          /\ \A id \in vanished \cap TrackedIds(batch', self_pane_id) :
                id \notin DOMAIN pane_states =>
                  /\ id \in DOMAIN pane_states'
                  /\ pane_states'[id].total_working_secs = 0
                  /\ pane_states'[id].total_waiting_secs = 0
                  /\ pane_states'[id].total_permission_secs = 0
                  /\ pane_states'[id].state_changes = 0
                  /\ pane_states'[id].previous_status = NoneStr
                  /\ EventsFor(notifications', id) = {}
      ]_vars

\* A pane whose record was dropped earlier has just come back, waiting for
\* input, as a new record and without an event.
C7_Witness ==
    /\ batch.ok
    /\ "%1" \in vanished
    /\ "%1" \in DOMAIN pane_states
    /\ pane_states["%1"].status = "WaitingForInput"
    /\ pane_states["%1"].state_changes = 0
    /\ pane_states["%1"].status_changed_at = now
    /\ now >= TicksPerSec
    /\ notifications = <<>>

\* C8: the first sighting of an id inserts a record with the observed status,
\* no previous_status, status_changed_at the time of the merge, zero counters
\* and state_changes, and no cached usage.
C8_FirstSighting ==
    [][ batch'.ok =>
          \A id \in TrackedIds(batch', self_pane_id) :
             id \notin DOMAIN pane_states =>
               /\ id \in DOMAIN pane_states'
               /\ IsFresh(pane_states'[id], Observed(batch', id), now')
      ]_vars

\* A pane has just been seen for the first time, asking for a permission,
\* after the clock had run for a while.
C8_Witness ==
    /\ batch.ok
    /\ "%1" \in DOMAIN pane_states
    /\ IsFresh(pane_states["%1"], "PermissionRequired", now)
    /\ now > 0

\* C9: while a record stays in the collection, status_changed_at, the three
\* counters and state_changes never decrease.
C9_Monotonic ==
    [][ \A id \in Surviving :
           LET old == pane_states[id]
               new == pane_states'[id]
           IN  /\ new.status_changed_at >= old.status_changed_at
               /\ new.total_working_secs >= old.total_working_secs
               /\ new.total_waiting_secs >= old.total_waiting_secs
               /\ new.total_permission_secs >= old.total_permission_secs
               /\ new.state_changes >= old.state_changes
      ]_vars

\* A record went through two status changes and has time in two counters.
C9_Witness ==
    /\ "%1" \in DOMAIN pane_states
    /\ pane_states["%1"].state_changes = 2
    /\ pane_states["%1"].total_working_secs > 0
    /\ pane_states["%1"].total_waiting_secs > 0
    /\ pane_states["%1"].status_changed_at = now

\* The export of the last handler gives a NotDetected pane its counters and no
\* more, and so does its summary when no visible pane has another status.
NotDetectedAddsNothing ==
    exported # NoExport =>
      LET e == exported[1]
          vis == visible_panes(pane_states, show_all_panes, status_filter)
      IN  /\ Len(e.panes) = Len(vis)
          /\ \A i \in 1..Len(vis) :
                vis[i].status = "NotDetected" =>
                  /\ e.panes[i].working_secs = vis[i].total_working_secs
                  /\ e.panes[i].waiting_secs = vis[i].total_waiting_secs
                  /\ e.panes[i].permission_secs = vis[i].total_permission_secs
          /\ (\A i \in 1..Len(vis) : vis[i].status = "NotDetected") =>
                /\ e.summary.total_working_secs
                     = SumSeq([i \in 1..Len(vis) |-> vis[i].total_working_secs])
                /\ e.summary.total_waiting_secs
                     = SumSeq([i \in 1..Len(vis) |-> vis[i].total_waiting_secs])
                /\ e.summary.total_permission_secs
                     = SumSeq([i \in 1..Len(vis) |-> vis[i].total_permission_secs])

\* C10: the time a pane spends in NotDetected is counted nowhere: a change
\* away from NotDetected adds to no counter (state_changes grows by 1), and
\* aggregate and export add no open-ended time for a NotDetected pane.
C10_NotDetectedUncounted ==
    [][ /\ batch'.ok =>
             \A id \in Surviving :
                LET old == pane_states[id]
                    new == pane_states'[id]
                IN  (old.status = "NotDetected" /\ new.status # "NotDetected") =>
                      /\ new.total_working_secs = old.total_working_secs
                      /\ new.total_waiting_secs = old.total_waiting_secs
                      /\ new.total_permission_secs = old.total_permission_secs
                      /\ new.state_changes = old.state_changes + 1
        /\ NotDetectedAddsNothing'
      ]_vars

\* A pane that had been Working went back to NotDetected more than a second
\* ago, and the view that shows it has just been exported.
C10_Witness ==
    /\ exported # NoExport
    /\ Len(exported[1].panes) = 1
    /\ "%1" \in DOMAIN pane_states
    /\ pane_states["%1"].status = "NotDetected"
    /\ pane_states["%1"].previous_status = "Working"
    /\ pane_states["%1"].total_working_secs > 0
    /\ pane_states["%1"].status_changed_at + TicksPerSec <= now

----------------------------------------------------------------------------
(* Properties of the merge: order of the batch, delivery of the events *)

\* The same panes in every order
Reorderings(panes) ==
    { [i \in 1..Len(panes) |-> panes[p[i]]] : p \in Perms(1..Len(panes)) }

\* What the claim compares of a record
Accounting(rec) ==
    [ status                |-> rec.status,
      previous_status       |-> rec.previous_status,
      total_working_secs    |-> rec.total_working_secs,
      total_waiting_secs    |-> rec.total_waiting_secs,
      total_permission_secs |-> rec.total_permission_secs,
      state_changes         |-> rec.state_changes ]

AccountingOf(states) == [id \in DOMAIN states |-> Accounting(states[id])]

EventSet(events) == { events[i] : i \in 1..Len(events) }

\* C11: the batch of list_panes has every id at most once, and the merge of
\* any reordering of it gives the same records (status, previous_status,
\* counters, state_changes) and the same set of events as the merge that ran.
C11_OrderIndependent ==
    [][ batch'.ok =>
          /\ \A i, j \in 1..Len(batch'.panes) :
                batch'.panes[i].id = batch'.panes[j].id => i = j
          /\ \A q \in Reorderings(batch'.panes) :
                LET r == refresh(pane_states, q, self_pane_id, now', now')
                IN  /\ AccountingOf(r.states) = AccountingOf(pane_states')
                    /\ EventSet(r.notifications) = EventSet(notifications')
      ]_vars

\* A merge of %1 before %0 updated both records and returned two events
C11_Witness ==
    /\ batch.ok
    /\ Len(batch.panes) = 2
    /\ batch.panes[1].id = "%1"
    /\ DOMAIN pane_states = {"%0", "%1"}
    /\ Len(notifications) = 2
    /\ notifications[1] # notifications[2]

\* C12: with notify_enabled, every event the merge of a refresh in the loop
\* returned is notified, one notification per event and in their order,
\* whatever jump_enabled is.
C12_EveryEventNotified ==
    (pc = "loop" /\ batch.ok /\ notify_enabled) => delivered.sent = notifications

----------------------------------------------------------------------------
(* One-shot notifications *)

NeedsAttention == {"WaitingForInput", "PermissionRequired"}

\* The history of the events after a merge of batch b that returned events
LogAfter(log, b, events, self_id) ==
    [id \in PaneIds |->
        IF EventsFor(events, id) # {}
        THEN [events |-> log[id].events + 1, worked |-> FALSE]
        ELSE IF id \in TrackedIds(b, self_id) /\ Observed(b, id) = "Working"
        THEN [log[id] EXCEPT !.worked = TRUE]
        ELSE log[id]]

\* The refresh handlers, with the history of the events kept
Logged ==
    /\ delivered' = IF pc = "loop" /\ batch'.ok
                    THEN Deliver(notifications', notify_enabled, jump_enabled)
                    ELSE NoDelivery
    /\ event_log' = IF batch'.ok
                    THEN LogAfter(event_log, batch', notifications', self_pane_id)
                    ELSE event_log
    /\ \A id \in PaneIds : event_log'[id].events <= MaxEvents
    /\ UNCHANGED created_at

InitialRefreshLogged ==
    /\ pc = "init"
    /\ DoRefresh(FALSE)
    /\ Logged

LoopRefreshLogged ==
    /\ pc = "loop"
    /\ DoRefresh(FALSE)
    /\ Logged

\* The monitor runs in pane %0 next to one more pane, within one tick of the
\* clock, and the history of the events is kept.
NextOneShot ==
    \/ InitialRefreshLogged
    \/ LoopRefreshLogged
    \/ KeyQuit

SpecOneShot == Init /\ [][NextOneShot]_vars

\* C13: a merge that observes a pane as WaitingForInput or PermissionRequired
\* whose record already had one of these two statuses returns no event for
\* it; no merge returns two events for one pane; and when a merge returns an
\* event for a pane that had an event before, some merge since that earlier
\* event observed the pane as Working.
C13_OneShot ==
    [][ batch'.ok =>
          \A id \in PaneIds :
             /\ ( /\ id \in DOMAIN pane_states
                  /\ pane_states[id].status \in NeedsAttention
                  /\ id \in TrackedIds(batch', self_pane_id)
                  /\ Observed(batch', id) \in NeedsAttention )
                => EventsFor(notifications', id) = {}
             /\ Cardinality(EventsFor(notifications', id)) <= 1
             /\ ( EventsFor(notifications', id) # {} /\ event_log[id].events > 0 )
                => event_log[id].worked
      ]_vars

\* The second event of pane %1 has just been returned
C13_Witness ==
    /\ batch.ok
    /\ event_log["%1"].events = 2
    /\ ~event_log["%1"].worked
    /\ EventsFor(notifications, "%1") # {}
    /\ pane_states["%1"].status \in NeedsAttention

----------------------------------------------------------------------------
(* The selection *)

\* The selection adjustment as the claim states it
ClampedTo(selected, count) ==
    IF count = 0 THEN 0
    ELSE IF selected >= count THEN count - 1
    ELSE selected

\* C14: after the selection adjustment at the end of a merge the selected
\* index is 0 when the visible list is empty, the visible count minus 1 when
\* it was greater than or equal to the visible count, and unchanged otherwise.
C14_SelectionAdjusted ==
    [][ batch'.ok =>
          selected_index' =
             ClampedTo(selected_index,
                       Len(visible_ids(pane_states', show_all_panes', status_filter')))
      ]_vars

\* C15: whenever the visible list is not empty the selected index is one of
\* its positions and selected_pane returns a pane: after every merge, every
\* toggle of show_all_panes or of a filter, and every move of the selection.
C15_SelectionValid ==
    VisibleCount > 0 =>
       /\ selected_index < VisibleCount
       /\ selected_pane(pane_states, show_all_panes, status_filter, selected_index) # None

\* Two panes have a record, a merge left only one of them in the filtered
\* view, and the selection is on it
C15_Witness ==
    /\ batch.ok
    /\ DOMAIN pane_states = {"%0", "%1"}
    /\ status_filter = "Working"
    /\ VisibleCount = 1
    /\ selected_pane(pane_states, show_all_panes, status_filter, selected_index)
          = Some(pane_states["%1"])

----------------------------------------------------------------------------
(* The visible list *)

\* The set of the elements of a sequence
Range(seq) == { seq[i] : i \in 1..Len(seq) }

\* C16: the visible list holds exactly the records for which show_all_panes
\* is set or the status is not NotDetected, and for which status_filter is
\* unset or equal to the status; each of them once.
C16_VisibleExactly ==
    LET ids == visible_ids(pane_states, show_all_panes, status_filter)
        panes == visible_panes(pane_states, show_all_panes, status_filter)
    IN  /\ Range(ids) =
             { id \in DOMAIN pane_states :
                 /\ show_all_panes \/ pane_states[id].status # "NotDetected"
                 /\ status_filter = NoneStr \/ pane_states[id].status = status_filter }
        /\ \A i, j \in 1..Len(ids) : ids[i] = ids[j] => i = j
        /\ Len(panes) = Len(ids)
        /\ \A i \in 1..Len(ids) : panes[i] = pane_states[ids[i]]

\* Both filters are at work: of three panes with three statuses one is shown
C16_Witness ==
    /\ ~show_all_panes
    /\ status_filter = "WaitingForInput"
    /\ { pane_states[id].status : id \in DOMAIN pane_states }
          = {"NotDetected", "Working", "WaitingForInput"}
    /\ Len(visible_ids(pane_states, show_all_panes, status_filter)) = 1

\* The rank of a status as the claim gives it
RankOf ==
    [ PermissionRequired |-> 0, Working |-> 1, WaitingForInput |-> 2, NotDetected |-> 3 ]

\* The sort key of a record
KeyOf(p) ==
    << RankOf[p.status], session_order(p.pane.session_name),
       p.pane.window_index, p.pane.pane_index >>

\* Lexicographic order of two keys of the same length
RECURSIVE KeyLess(_, _)
KeyLess(a, b) ==
    /\ a # <<>>
    /\ \/ Head(a) < Head(b)
       \/ Head(a) = Head(b) /\ KeyLess(Tail(a), Tail(b))

\* The records that pass the filters
Shown == { pane_states[id] : id \in Range(visible_ids(pane_states, show_all_panes,
                                                      status_filter)) }

\* C17: the visible list is in strictly ascending order of (status rank,
\* session name, window index, pane index), with the ranks PermissionRequired
\* 0, Working 1, WaitingForInput 2, NotDetected 3; sorting the shown records
\* from any order of storage gives this list; three shown panes of one
\* session that are Working, PermissionRequired and WaitingForInput come out
\* as PermissionRequired, Working, WaitingForInput.
C17_VisibleSorted ==
    LET panes == visible_panes(pane_states, show_all_panes, status_filter)
    IN  /\ \A i, j \in 1..Len(panes) : i < j => KeyLess(KeyOf(panes[i]), KeyOf(panes[j]))
        /\ \A stored \in Perms(Shown) : sort_by(stored) = panes
        /\ ( /\ Len(panes) = 3
             /\ \A p, q \in Shown : p.pane.session_name = q.pane.session_name
             /\ { p.status : p \in Shown }
                  = {"Working", "PermissionRequired", "WaitingForInput"} )
           => [i \in 1..3 |-> panes[i].status]
                = <<"PermissionRequired", "Working", "WaitingForInput">>

\* Three panes of the session app: the one with the lowest window and pane
\* index is WaitingForInput and comes last, where the selection has moved
\* to; the Working one comes second
C17_Witness ==
    LET panes == visible_panes(pane_states, show_all_panes, status_filter)
    IN  /\ Len(panes) = 3
        /\ \A i \in 1..3 : panes[i].pane.session_name = "app"
        /\ [i \in 1..3 |-> panes[i].status]
              = <<"PermissionRequired", "Working", "WaitingForInput">>
        /\ panes[3].pane.window_index = 0
        /\ panes[2].pane.window_index = 1
        /\ panes[2].pane.pane_index > panes[1].pane.pane_index
        /\ selected_pane(pane_states, show_all_panes, status_filter, selected_index)
              = Some(panes[3])

----------------------------------------------------------------------------
(* The statistics and the export *)

\* The sum of the values of a function with a finite domain
RECURSIVE SumOf(_)
SumOf(f) ==
    IF DOMAIN f = {} THEN 0
    ELSE LET x == CHOOSE y \in DOMAIN f : TRUE
         IN  f[x] + SumOf([y \in DOMAIN f \ {x} |-> f[y]])

\* The ids of the records in the view
ViewIds == Range(visible_ids(pane_states, show_all_panes, status_filter))

\* The whole seconds from the status_changed_at of record id to clock reading t
OpenSecs(id, t) == (t - pane_states[id].status_changed_at) \div TicksPerSec

\* The aggregate over the view as the claim gives it, for the clock reading t
Totals(t) ==
    [ pane_count |-> Cardinality(ViewIds),
      total_working_secs |->
          SumOf([id \in ViewIds |->
                   pane_states[id].total_working_secs
                     + (IF pane_states[id].status = "Working" THEN OpenSecs(id, t) ELSE 0)]),
      total_waiting_secs |->
          SumOf([id \in ViewIds |->
                   pane_states[id].total_waiting_secs
                     + (IF pane_states[id].status = "WaitingForInput"
                        THEN OpenSecs(id, t) ELSE 0)]),
      total_permission_secs |->
          SumOf([id \in ViewIds |->
                   pane_states[id].total_permission_secs
                     + (IF pane_states[id].status = "PermissionRequired"
                        THEN OpenSecs(id, t) ELSE 0)]),
      total_state_changes |->
          SumOf([id \in ViewIds |-> pane_states[id].state_changes]) ]

\* The view, and the aggregate over it read at clock reading t
View == visible_panes(pane_states, show_all_panes, status_filter)
StatsAt(t) == aggregated_stats(View, t)

\* The seconds that pass from t1 to t2 for the panes of the view whose
\* status is the given one
Passed(status, t1, t2) ==
    SumOf([id \in { i \in ViewIds : pane_states[i].status = status } |->
             OpenSecs(id, t2) - OpenSecs(id, t1)])

\* The clock readings of an export that ended now
ExportReads == { t \in 0..now : now - t <= MaxDrift }

\* C18: the aggregate over the view, read at any time from now on, has the
\* view's size as pane_count, the sum of the state_changes, and per bucket
\* the sum of the counters plus the whole seconds since status_changed_at of
\* the panes whose status is that bucket; two reads differ exactly by the
\* seconds that passed for the panes in the bucket; and the summary of an
\* export is the aggregate of the time the export read the clock.
C18_Aggregate ==
    /\ \A t \in now..MaxTime : StatsAt(t) = Totals(t)
    /\ \A t1, t2 \in now..MaxTime :
          t1 <= t2 =>
            LET a == StatsAt(t1)
                b == StatsAt(t2)
            IN  /\ b.pane_count = a.pane_count
                /\ b.total_state_changes = a.total_state_changes
                /\ b.total_working_secs - a.total_working_secs
                      = Passed("Working", t1, t2)
                /\ b.total_waiting_secs - a.total_waiting_secs
                      = Passed("WaitingForInput", t1, t2)
                /\ b.total_permission_secs - a.total_permission_secs
                      = Passed("PermissionRequired", t1, t2)
    /\ exported # NoExport =>
          \E t \in ExportReads :
             LET sum == exported[1].summary
                 tot == Totals(t)
             IN  /\ sum.total_panes = tot.pane_count
                 /\ sum.total_working_secs = tot.total_working_secs
                 /\ sum.total_waiting_secs = tot.total_waiting_secs
                 /\ sum.total_permission_secs = tot.total_permission_secs
                 /\ sum.total_state_changes = tot.total_state_changes

\* An export over two panes: one waits with a second of work on its counter,
\* the other works; the total of work is the counter of the first and the
\* open-ended time of the second
C18_Witness ==
    /\ exported # NoExport
    /\ exported[1].summary.total_panes = 2
    /\ pane_states["%1"].status = "WaitingForInput"
    /\ pane_states["%1"].total_working_secs = 1
    /\ pane_states["%2"].status = "Working"
    /\ pane_states["%2"].total_working_secs = 0
    /\ exported[1].summary.total_working_secs = 2
    /\ exported[1].summary.total_waiting_secs = 1
    /\ exported[1].summary.total_state_changes = 1

\* C19: the efficiency of an aggregate whose three totals are 0 is exactly
\* 0, for the empty view too, and no efficiency has a zero denominator.
C19_EfficiencyOfNothing ==
    /\ \A t \in now..MaxTime :
          LET stats == StatsAt(t)
              e == efficiency_percent(stats)
          IN  /\ e[2] # 0
              /\ ( stats.total_working_secs = 0 /\ stats.total_waiting_secs = 0
                     /\ stats.total_permission_secs = 0 )
                 => e[1] = 0
    /\ exported # NoExport =>
          LET sum == exported[1].summary
          IN  /\ sum.efficiency_percent[2] # 0
              /\ ( sum.total_working_secs = 0 /\ sum.total_waiting_secs = 0
                     /\ sum.total_permission_secs = 0 )
                 => sum.efficiency_percent[1] = 0

\* An export of the empty view, while a pane with time on its counter is
\* filtered out
C19_Witness ==
    /\ exported # NoExport
    /\ exported[1].summary.total_panes = 0
    /\ exported[1].summary.efficiency_percent = <<0, 1>>
    /\ status_filter = "Working"
    /\ \E id \in DOMAIN pane_states : pane_states[id].total_working_secs > 0

\* The effective duration of record p for a status at clock reading t
Effective(p, counter, status, t) ==
    counter + (IF p.status = status
               THEN (t - p.status_changed_at) \div TicksPerSec
               ELSE 0)

----------------------------------------------------------------------------
(* The statuses of the records *)

\* The status the option fields raw stand for
StatusOf(raw) == from_pane(OptField(raw[1]), OptField(raw[2]))

\* C21: after every merge each record has the status of its observation in
\* the batch, and a further merge that observes the pane with any of the four
\* statuses gives the record that status, whatever status it has: no pair
\* of an old and a new status is refused.
C21_AnyStatusFollowsAny ==
    [][ batch'.ok =>
          /\ \A id \in DOMAIN pane_states' :
                /\ id \in TrackedIds(batch', self_pane_id)
                /\ pane_states'[id].status = Observed(batch', id)
          /\ \A new \in Statuses : \E raw \in RawFields : StatusOf(raw) = new
          /\ \A id \in DOMAIN pane_states' :
                \A raw \in RawFields :
                   LET r == refresh(pane_states', <<MkPane(id, raw)>>,
                                    self_pane_id, now', now')
                   IN  /\ id \in DOMAIN r.states
                       /\ r.states[id].status = StatusOf(raw)
      ]_vars

\* A pane went from PermissionRequired to NotDetected and, before that, from
\* another status to PermissionRequired
C21_Witness ==
    /\ batch.ok
    /\ "%1" \in DOMAIN pane_states
    /\ pane_states["%1"].previous_status = "PermissionRequired"
    /\ pane_states["%1"].status = "NotDetected"
    /\ pane_states["%1"].state_changes = 2

----------------------------------------------------------------------------
(* The usage of a pane *)

\* C22: refresh_costs keeps the set of records and, of every record, the
\* pane, the status, previous_status, status_changed_at, the three counters
\* and state_changes; the selection, the filters and the clock stay as well.
C22_CostsWriteTokensOnly ==
    [][ KeyCosts =>
          /\ DOMAIN pane_states' = DOMAIN pane_states
          /\ \A id \in DOMAIN pane_states :
                LET old == pane_states[id]
                    new == pane_states'[id]
                IN  /\ new.pane = old.pane
                    /\ new.status = old.status
                    /\ new.previous_status = old.previous_status
                    /\ new.status_changed_at = old.status_changed_at
                    /\ new.total_working_secs = old.total_working_secs
                    /\ new.total_waiting_secs = old.total_waiting_secs
                    /\ new.total_permission_secs = old.total_permission_secs
                    /\ new.state_changes = old.state_changes
          /\ selected_index' = selected_index
          /\ show_all_panes' = show_all_panes
          /\ status_filter' = status_filter
          /\ now' = now
      ]_vars

\* The usage of a claude pane that changed its status twice has been read
C22_Witness ==
    /\ pc = "loop"
    /\ batch = NoBatch
    /\ "%1" \in DOMAIN pane_states
    /\ pane_states["%1"].pane.agent_provider = "claude"
    /\ pane_states["%1"].state_changes = 2
    /\ pane_states["%1"].tokens # None
    /\ pane_states["%1"].tokens[1].input_tokens > 0

\* C23: after refresh_costs a record whose provider is not claude has a zero
\* usage, or none at all: no usage of a log is attached to it.
C23_OtherProvidersHaveZeroUsage ==
    [][ KeyCosts =>
          \A id \in DOMAIN pane_states' :
             pane_states'[id].pane.agent_provider # "claude"
               => pane_states'[id].tokens \in {None, Some(ZeroUsage)}
      ]_vars

\* The name the claim derives from a path
ClaimedName(path) ==
    [i \in 1..Len(path) |->
        CASE path[i] = "/" -> "-"
          [] path[i] = "_" -> "-"
          [] path[i] = "." -> "-"
          [] path[i] = " " -> "-"
          [] OTHER -> path[i]]

\* C24: the session directory refresh_costs looks up for a claude pane has
\* the name that its path gives when every '/', '_', '.' and ' ' is replaced
\* by '-'; so when a readable directory of that name holds one good log, the
\* usage of that log is attached to the pane.
C24_DirectoryName ==
    [][ KeyCosts =>
          \A id \in DOMAIN pane_states :
             pane_states[id].pane.agent_provider = "claude" =>
               LET path == pane_states[id].pane.current_path IN
               /\ hash_path(path) = ClaimedName(path)
               /\ files = [home |-> TRUE,
                           session_dir |-> SessionDir(ClaimedName(path), TRUE, <<GoodLog>>)]
                    => pane_states'[id].tokens = Some(parse_jsonl_tokens(GoodLog.content))
      ]_vars

\* The sum of one field of the usage objects of the lines of a log
FieldSum(lines, field) ==
    SumSeq([i \in 1..Len(lines) |->
               IF lines[i].kind = "json" /\ lines[i].usage # None
                    /\ lines[i].usage[1][field] # None
               THEN lines[i].usage[1][field][1]
               ELSE 0])

\* The file system has the session directory of path, with one readable
\* and dated log of the lines given
OneLog(path, lines) ==
    files = [home |-> TRUE,
             session_dir |-> SessionDir(hash_path(path), TRUE,
                                << [ext |-> "jsonl", modified |-> 1, content |-> Some(lines)] >>)]

\* C25: the usage read from a log is, for each of the four counts, the sum of
\* that field over all the lines that are JSON with a usage object, a missing
\* field counting 0; blank and malformed lines add nothing and the lines
\* after them are still counted.
C25_UsageIsSumOverLines ==
    [][ KeyCosts =>
          \A id \in DOMAIN pane_states : \A lines \in Contents :
             pane_states[id].pane.agent_provider = "claude"
               /\ OneLog(pane_states[id].pane.current_path, lines)
             => pane_states'[id].tokens =
                  Some([ input_tokens       |-> FieldSum(lines, "input_tokens"),
                         output_tokens      |-> FieldSum(lines, "output_tokens"),
                         cache_read_tokens  |-> FieldSum(lines, "cache_read_input_tokens"),
                         cache_write_tokens |-> FieldSum(lines, "cache_creation_input_tokens") ])
      ]_vars

\* A log of a malformed line and then a line of usage has been read: the
\* usage of the second line is on the pane.
C25_Witness ==
    /\ "%1" \in DOMAIN pane_states
    /\ OneLog(pane_states["%1"].pane.current_path,
              << MalformedLine,
                 JsonLine(Some(UsageObject(Some(1000000), Some(100000), Some(500000), None))) >>)
    /\ pane_states["%1"].tokens =
         Some([ input_tokens |-> 1000000, output_tokens |-> 100000,
                cache_read_tokens |-> 500000, cache_write_tokens |-> 0 ])

\* The file system has the session directory of path, and it can be read
HasSessionDir(path) ==
    /\ files.home
    /\ files.session_dir # None
    /\ files.session_dir[1].name = hash_path(path)
    /\ files.session_dir[1].readable

\* The places of the logs of the session directory whose metadata can be read
DatedLogs ==
    LET entries == files.session_dir[1].entries
    IN  { i \in 1..Len(entries) : entries[i].ext = "jsonl" /\ entries[i].modified # 0 }

\* C26: the usage refresh_costs attaches to a claude pane is the usage of one
\* file, a log of the session directory that no other log is newer than;
\* when the directory has no log it is the zero usage.
C26_MostRecentLogOnly ==
    [][ KeyCosts =>
          \A id \in DOMAIN pane_states :
             pane_states[id].pane.agent_provider = "claude"
               /\ HasSessionDir(pane_states[id].pane.current_path)
             => LET entries == files.session_dir[1].entries IN
                IF DatedLogs = {}
                THEN pane_states'[id].tokens = Some(ZeroUsage)
                ELSE \E i \in DatedLogs :
                       /\ \A k \in DatedLogs : entries[k].modified <= entries[i].modified
                       /\ pane_states'[id].tokens = Some(parse_jsonl_tokens(entries[i].content))
      ]_vars

\* The session directory has an older log that counts 1 token and then a
\* newer one that counts 2: the pane has the 2 tokens, not 1 and not 3.
C26_Witness ==
    /\ "%1" \in DOMAIN pane_states
    /\ HasSessionDir(pane_states["%1"].pane.current_path)
    /\ Len(files.session_dir[1].entries) = 2
    /\ DatedLogs = {1, 2}
    /\ files.session_dir[1].entries[1].modified = 1
    /\ files.session_dir[1].entries[2].modified = 2
    /\ files.session_dir[1].entries[1].content # None
    /\ pane_states["%1"].tokens = Some([ZeroUsage EXCEPT !.input_tokens = 2])

\* Every newest dated log of the session directory cannot be read
NewestUnreadable ==
    LET entries == files.session_dir[1].entries IN
    \A i \in DatedLogs :
       (\A k \in DatedLogs : entries[k].modified <= entries[i].modified)
         => entries[i].content = None

\* C27: refresh_costs always attaches a usage to a claude pane and the loop
\* goes on; the usage is the zero usage when the home directory is unknown,
\* when the session directory is missing or cannot be read, when no log has
\* readable metadata and when the log to read cannot be read.
C27_FailuresGiveZeroUsage ==
    [][ KeyCosts =>
          /\ pc' = "loop"
          /\ exit_result' = exit_result
          /\ \A id \in DOMAIN pane_states :
                pane_states[id].pane.agent_provider = "claude" =>
                  /\ pane_states'[id].tokens # None
                  /\ ( \/ ~files.home
                       \/ files.session_dir = None
                       \/ files.session_dir[1].name # hash_path(pane_states[id].pane.current_path)
                       \/ ~files.session_dir[1].readable
                       \/ DatedLogs = {}
                       \/ NewestUnreadable )
                     => pane_states'[id].tokens = Some(ZeroUsage)
      ]_vars

\* The session directory of the pane holds a good log but cannot be read,
\* and the pane has got the zero usage.
C27_Witness ==
    /\ "%1" \in DOMAIN pane_states
    /\ files.home
    /\ files.session_dir =
         SessionDir(hash_path(pane_states["%1"].pane.current_path), FALSE, <<GoodLog>>)
    /\ pane_states["%1"].tokens = Some(ZeroUsage)
    /\ pc = "loop"

\* 1,000,000 input, 100,000 output and 500,000 cache-read tokens
ExampleUsage ==
    [ input_tokens |-> 1000000, output_tokens |-> 100000,
      cache_read_tokens |-> 500000, cache_write_tokens |-> 0 ]

\* C28: the cost of every usage a pane has is the sum of its four counts,
\* each times its price (3.00, 15.00, 0.30 and 3.75 USD for a million
\* tokens); it is 0 exactly when the four counts are 0, and the cost of
\* 1,000,000 input, 100,000 output and 500,000 cache-read tokens is 4.65 USD
\* (465,000,000 units of 10^-8 USD).
C28_CostIsPricedSum ==
    \A id \in DOMAIN pane_states :
       pane_states[id].tokens # None =>
         LET usage == pane_states[id].tokens[1] IN
         /\ cost_usd(usage) =
               usage.input_tokens * 300
                 + usage.output_tokens * 1500
                 + usage.cache_read_tokens * 30
                 + usage.cache_write_tokens * 375
         /\ (cost_usd(usage) = 0) <=> (usage = ZeroUsage)
         /\ usage # ZeroUsage => cost_usd(usage) > 0
         /\ usage = ExampleUsage => cost_usd(usage) = 465000000

\* A pane has got the usage of the example.
C28_Witness ==
    /\ "%1" \in DOMAIN pane_states
    /\ pane_states["%1"].tokens = Some(ExampleUsage)
    /\ cost_usd(ExampleUsage) = 465000000

----------------------------------------------------------------------------
(* The status a record has left *)

\* C29: a record has no previous_status exactly when its state_changes is 0,
\* and a previous_status it has is not its status.
C29_PreviousStatusMatchesChanges ==
    \A id \in DOMAIN pane_states :
       LET st == pane_states[id] IN
       /\ (st.previous_status = NoneStr) <=> (st.state_changes = 0)
       /\ st.previous_status # NoneStr => st.previous_status # st.status

\* A record has changed twice, back to the status it had at first, and the
\* status it has left is another one; a second record has not changed.
C29_Witness ==
    \E id \in DOMAIN pane_states : \E other \in DOMAIN pane_states :
       /\ pane_states[id].state_changes = 2
       /\ pane_states[id].status = "Working"
       /\ pane_states[id].previous_status = "WaitingForInput"
       /\ pane_states[other].state_changes = 0
       /\ pane_states[other].previous_status = NoneStr

----------------------------------------------------------------------------
(* The summary and the rows of one export *)

\* The sum of one field over the rows of an export
RowSum(rows, field) == SumSeq([i \in 1..Len(rows) |-> rows[i][field]])

\* C30: in every export the totals of the summary are the sums of the rows:
\* the three durations, the state changes, and the number of rows.
C30_SummaryAgreesWithRows ==
    exported # NoExport =>
      LET rows == exported[1].panes
          sum == exported[1].summary
      IN  /\ sum.total_panes = Len(rows)
          /\ sum.total_state_changes = RowSum(rows, "state_changes")
          /\ sum.total_working_secs = RowSum(rows, "working_secs")
          /\ sum.total_waiting_secs = RowSum(rows, "waiting_secs")
          /\ sum.total_permission_secs = RowSum(rows, "permission_secs")

----------------------------------------------------------------------------
(* The time of a record *)

\* The whole seconds from instant t0 to instant t
WholeSecs(t0, t) == (t - t0) \div TicksPerSec

\* C31: for every record, now and at any later reading of the clock, the
\* three counters plus the whole seconds since status_changed_at are at most
\* the whole seconds since the record was inserted.
C31_NoTimeCountedTwice ==
    pc # "init" =>
      \A id \in DOMAIN pane_states : \A t \in now..MaxTime :
         LET st == pane_states[id] IN
         st.total_working_secs + st.total_waiting_secs + st.total_permission_secs
            + WholeSecs(st.status_changed_at, t)
           <= WholeSecs(created_at[id], t)

\* A record inserted at instant 0 has worked for a second, has then waited
\* for a second, and all of its two seconds are counted.
C31_Witness ==
    /\ "%1" \in DOMAIN pane_states
    /\ created_at["%1"] = 0
    /\ pane_states["%1"].total_working_secs = 1
    /\ pane_states["%1"].status = "WaitingForInput"
    /\ WholeSecs(pane_states["%1"].status_changed_at, now) = 1
    /\ WholeSecs(0, now) = 2

----------------------------------------------------------------------------
(* The moves of the selection *)

\* C32: a move of the selection over a view that is not empty, from an index
\* in range, is undone by the opposite move; the move down from the last row
\* ends on row 0 and the move up from row 0 on the last row; over the empty
\* view both moves leave the index as it is.
C32_MovesAreInverse ==
    [][ /\ KeyNext =>
            IF VisibleCount = 0 THEN selected_index' = selected_index
            ELSE selected_index < VisibleCount =>
                   /\ select_previous(selected_index', VisibleCount) = selected_index
                   /\ selected_index = VisibleCount - 1 => selected_index' = 0
                   /\ selected_index < VisibleCount - 1
                        => selected_index' = selected_index + 1
        /\ KeyPrevious =>
            IF VisibleCount = 0 THEN selected_index' = selected_index
            ELSE selected_index < VisibleCount =>
                   /\ select_next(selected_index', VisibleCount) = selected_index
                   /\ selected_index = 0 => selected_index' = VisibleCount - 1
                   /\ selected_index > 0 => selected_index' = selected_index - 1
      ]_vars

\* The selection is on the last of three rows
C32_Witness ==
    /\ VisibleCount = 3
    /\ selected_index = 2
    /\ select_next(selected_index, VisibleCount) = 0

----------------------------------------------------------------------------
(* The toggles of the filters *)

\* C33: status_filter is always unset, Working or WaitingForInput; a toggle
\* of a filter sets it when the filter was unset or was the other one, and
\* unsets it when it was set to it, so that the same toggle twice from the
\* unset filter gives the unset filter again; the toggles of the filters and
\* of show_all_panes put the selection on row 0, and the toggle of
\* show_all_panes leaves the filter alone.
C33_FilterToggles ==
    [][ /\ status_filter' \in {NoneStr, "Working", "WaitingForInput"}
        /\ KeyFilterWorking =>
              /\ selected_index' = 0
              /\ status_filter \in {NoneStr, "WaitingForInput"} => status_filter' = "Working"
              /\ status_filter = "Working" => status_filter' = NoneStr
              /\ status_filter = NoneStr
                   => toggle_filter_working(status_filter') = NoneStr
        /\ KeyFilterWaiting =>
              /\ selected_index' = 0
              /\ status_filter \in {NoneStr, "Working"} => status_filter' = "WaitingForInput"
              /\ status_filter = "WaitingForInput" => status_filter' = NoneStr
              /\ status_filter = NoneStr
                   => toggle_filter_waiting(status_filter') = NoneStr
        /\ KeyShowAll =>
              /\ selected_index' = 0
              /\ show_all_panes' = ~show_all_panes
              /\ status_filter' = status_filter
      ]_vars

\* The filter of the waiting panes is set, over a view of two rows of which
\* the first is selected
C33_Witness ==
    /\ status_filter = "WaitingForInput"
    /\ selected_index = 0
    /\ VisibleCount = 2
    /\ toggle_filter_working(status_filter) = "Working"

----------------------------------------------------------------------------
(* The usage of a pane across merges *)

\* C34: a merge leaves the tokens of every record that is there before and
\* after it as they were, whatever it changes of the status, the path and
\* the provider of the pane; a record it inserts has none.
C34_MergeKeepsUsage ==
    [][ batch'.ok =>
          /\ \A id \in DOMAIN pane_states \cap DOMAIN pane_states' :
                pane_states'[id].tokens = pane_states[id].tokens
          /\ \A id \in DOMAIN pane_states' \ DOMAIN pane_states :
                pane_states'[id].tokens = None
      ]_vars

\* The usage read for claude in /s/a is on the record of the pane, which is
\* now in /t, runs gemini and has changed its status
C34_Witness ==
    /\ "%1" \in DOMAIN pane_states
    /\ pane_states["%1"].tokens = Some([ZeroUsage EXCEPT !.input_tokens = 1,
                                                          !.output_tokens = 1])
    /\ pane_states["%1"].pane.current_path = <<"/", "t">>
    /\ pane_states["%1"].pane.agent_provider = "gemini"
    /\ pane_states["%1"].state_changes > 0
    /\ batch.ok

----------------------------------------------------------------------------
(* providers/mod.rs: ProviderRegistry *)

ProviderKinds == {"Claude", "OpenAI", "Gemini"}

ProviderRegistry_new_gemini_first == <<"Gemini", "OpenAI", "Claude">>

\* Lines 126-137: the providers in the order of their registration
ProviderRegistry_new == <<"Claude", "OpenAI", "Gemini">>

\* A pane as the providers see it: for every provider, whether its detect
\* accepts the tty, the title and the content of the pane, and the status
\* its get_session_info finds
SeenPanes ==
    [ detects : [ProviderKinds -> BOOLEAN], status : [ProviderKinds -> Statuses] ]

\* Provider::get_session_info of one provider (claude.rs 43-46, openai.rs
\* 39-42, gemini.rs 38-41): the info carries the kind of the provider
provider_session_info(kind, pane) ==
    [provider |-> kind, status |-> pane.status[kind]]

\* Lines 151-165: the loop over the providers; consulted is the history of
\* the calls of detect and get_session_info it makes
RECURSIVE registry_loop(_, _, _)
registry_loop(providers, pane, consulted) ==
    IF providers = <<>>
    THEN [ info |-> [provider |-> "Unknown", status |-> "NotDetected"],
           consulted |-> consulted ]
    ELSE LET provider == Head(providers) IN
         IF pane.detects[provider]
         THEN [ info |-> provider_session_info(provider, pane),
                consulted |-> consulted \o << <<provider, "detect">>,
                                              <<provider, "get_session_info">> >> ]
         ELSE registry_loop(Tail(providers), pane,
                            Append(consulted, <<provider, "detect">>))

\* ProviderRegistry::get_session_info
get_session_info(pane) == registry_loop(ProviderRegistry_new, pane, <<>>)

\* A call of a function of the library that has not returned yet
Pending(fn) == call.fn = fn /\ ret = NoRet

CallGetSessionInfo ==
    /\ Pending("get_session_info")
    /\ ret' = Some(get_session_info(call.pane))
    /\ UNCHANGED <<monitor, disk, call>>

\* ProviderRegistry::get_session_info is called for any pane
InitRegistry ==
    /\ Unstarted
    /\ disk = NoDisk
    /\ call \in { [fn |-> "get_session_info", pane |-> pane] : pane \in SeenPanes }
    /\ ret = NoRet

SpecRegistry == InitRegistry /\ [][CallGetSessionInfo]_vars

\* The order of the providers the claim names
ClaimedOrder == <<"Claude", "OpenAI", "Gemini">>

\* C35: get_session_info returns the info of the first of Claude, OpenAI and
\* Gemini whose detect accepts the pane, after asking no provider that comes
\* later and no provider twice; when none accepts it returns the provider
\* Unknown with the status NotDetected.
C35_FirstMatchWins ==
    ( call.fn = "get_session_info" /\ ret # NoRet ) =>
      LET pane == call.pane
          r == ret[1]
          accepted == { i \in 1..3 : pane.detects[ClaimedOrder[i]] }
      IN  IF accepted = {}
          THEN /\ r.info = [provider |-> "Unknown", status |-> "NotDetected"]
               /\ \A k \in 1..Len(r.consulted) : r.consulted[k][2] = "detect"
          ELSE LET first == CHOOSE i \in accepted : \A j \in accepted : i <= j IN
               /\ r.info = [provider |-> ClaimedOrder[first],
                            status |-> pane.status[ClaimedOrder[first]]]
               /\ \A k \in 1..Len(r.consulted) :
                     /\ \E i \in 1..first : r.consulted[k][1] = ClaimedOrder[i]
                     /\ r.consulted[k][2] = "get_session_info"
                          => r.consulted[k][1] = ClaimedOrder[first]
               /\ \A k1, k2 \in 1..Len(r.consulted) :
                     r.consulted[k1] = r.consulted[k2] => k1 = k2

\* OpenAI and Gemini both accept the pane and Claude does not: the info is
\* OpenAI's, and Gemini was not asked
C35_Witness ==
    /\ call.fn = "get_session_info"
    /\ ret # NoRet
    /\ ~call.pane.detects["Claude"]
    /\ call.pane.detects["OpenAI"]
    /\ call.pane.detects["Gemini"]
    /\ call.pane.status["OpenAI"] = "Working"
    /\ call.pane.status["Gemini"] = "WaitingForInput"
    /\ ret[1].info = [provider |-> "OpenAI", status |-> "Working"]
    /\ ret[1].consulted = << <<"Claude", "detect">>, <<"OpenAI", "detect">>,
                             <<"OpenAI", "get_session_info">> >>

----------------------------------------------------------------------------
(* hooks.rs: the hooks of Claude in ~/.claude/settings.json *)

\* Lines 38-58: the keys of claude_hooks()
RequiredHooks == {"UserPromptSubmit", "Stop", "PermissionRequest"}

\* The keys a hooks object can have, one of them not of claude_hooks()
HookKeys == RequiredHooks \cup {"PreToolUse"}

\* The value of a key of a hooks object: the one claude_hooks() has for the
\* key, another one the user wrote, or null
HookValues == {"ours", "user", "null"}

\* A JSON object with a hooks object of some entries and another setting
JsonObject(other, hooks) == [type |-> "object", other |-> other, hooks |-> hooks]
HooksObject(entries) == [type |-> "object", entries |-> entries]

\* A JSON value that is no object (null or an array) and a value of the key
\* hooks that is no object (null or a string)
JsonOf(type) == [type |-> type, other |-> "", hooks |-> None]
HooksOf(type) == [type |-> type, entries |-> <<>>]

\* The contents settings.json can have: text that is no JSON, or a JSON value
Garbage == [kind |-> "garbage", value |-> JsonOf("null")]
Json(value) == [kind |-> "json", value |-> value]

HooksValues ==
    { HooksOf("null"), HooksOf("string") }
      \cup { HooksObject(e) : e \in UNION { [keys -> HookValues] : keys \in SUBSET HookKeys } }

SettingsContents ==
    { Garbage, Json(JsonOf("null")), Json(JsonOf("array")) }
      \cup { Json(JsonObject(other, hooks)) :
               other \in {"", "theme"},
               hooks \in {None} \cup { Some(h) : h \in HooksValues } }

\* Lines 78-87: Value::get gives None for a key of a value that is no object
has_claude_hooks(settings) ==
    /\ settings.type = "object"
    /\ settings.hooks # None
    /\ settings.hooks[1].type = "object"
    /\ RequiredHooks \subseteq DOMAIN settings.hooks[1].entries

\* Lines 132-140: the keys of claude_hooks() that hooks_obj does not have are
\* inserted
merge_hooks_overwrites(entries) ==
    [key \in DOMAIN entries \cup RequiredHooks |->
        IF key \in RequiredHooks THEN "ours" ELSE entries[key]]

merge_hooks(entries) ==
    [key \in DOMAIN entries \cup RequiredHooks |->
        IF key \in DOMAIN entries THEN entries[key] ELSE "ours"]

\* What a call has done: its Result, or the panic it ended with, and the
\* files it wrote, in order
Outcome(result, writes) == [result |-> result, writes |-> writes]

\* Lines 100-144.  d is the disk; the value is the disk afterwards and the
\* outcome.  fs::write and fs::copy fail when the directory is not writable.
check_and_inject_claude_hooks(d) ==
    IF ~d.home
    THEN [disk |-> d, out |-> Outcome("Err", <<>>)]
    ELSE IF d.settings = None
    THEN IF ~d.writable
         THEN [disk |-> d, out |-> Outcome("Err", <<>>)]
         ELSE [ disk |-> [d EXCEPT !.settings =
                            Some(Json(JsonObject("", Some(HooksObject(merge_hooks(<<>>))))))],
                out |-> Outcome("Ok(true)", <<"settings.json">>) ]
    ELSE IF d.settings[1].kind = "garbage"
    THEN [disk |-> d, out |-> Outcome("Err", <<>>)]
    ELSE LET settings == d.settings[1].value IN
         IF has_claude_hooks(settings)
         THEN [disk |-> d, out |-> Outcome("Ok(false)", <<>>)]
         ELSE IF ~d.writable
         THEN [disk |-> d, out |-> Outcome("Err", <<>>)]
         ELSE LET saved == [d EXCEPT !.backup = d.settings] IN
              \* line 128: settings["hooks"] = json!({}) makes an object of
              \* null and panics for any other value that is no object
              IF settings.type = "array"
              THEN [disk |-> saved, out |-> Outcome("panic", <<"settings.json.bak">>)]
              ELSE LET hooks == IF settings.hooks = None
                                THEN HooksObject(<<>>) ELSE settings.hooks[1]
                       other == IF settings.type = "null" THEN "" ELSE settings.other
                   IN  IF hooks.type # "object"
                       THEN [disk |-> saved, out |-> Outcome("Err", <<"settings.json.bak">>)]
                       ELSE [ disk |-> [saved EXCEPT !.settings =
                                          Some(Json(JsonObject(other,
                                                 Some(HooksObject(merge_hooks(hooks.entries))))))],
                              out |-> Outcome("Ok(true)",
                                              <<"settings.json.bak", "settings.json">>) ]

\* hooks.rs, line 10: the hooks of Claude are checked, once more
CallInject ==
    /\ call.fn = "check_and_inject_claude_hooks"
    /\ call.n < MaxCalls
    /\ LET r == check_and_inject_claude_hooks(disk) IN
         /\ disk' = r.disk
         /\ ret' = Some(r.out)
    /\ call' = [call EXCEPT !.n = @ + 1]
    /\ UNCHANGED monitor

\* Any settings file, or none, with or without a backup of an earlier time
InitHooks ==
    /\ Unstarted
    /\ disk \in [ home : BOOLEAN, writable : BOOLEAN,
                   settings : {None} \cup { Some(c) : c \in SettingsContents },
                   backup : {None, Some(Garbage)} ]
    /\ call = [fn |-> "check_and_inject_claude_hooks", n |-> 0]
    /\ ret = NoRet

SpecHooks == InitHooks /\ [][CallInject]_vars

\* The entries of the hooks object of a settings value, none when it has no
\* hooks object
EntriesOf(settings) ==
    IF settings.hooks # None /\ settings.hooks[1].type = "object"
    THEN settings.hooks[1].entries
    ELSE <<>>

\* C36: a call of check_and_inject_claude_hooks that follows a call that
\* returned Ok returns Ok(false) and writes no file; a call changes the
\* settings file only when it returns Ok(true); when it changes a file that
\* was there, the copy of the old file is written first and is the backup,
\* the other setting and every entry of the old hooks object are as they
\* were, and the new entries are keys of claude_hooks() with its values.
C36_InjectOnceAndKeep ==
    [][ CallInject =>
          LET out == ret'[1] IN
          /\ ( ret # NoRet /\ ret[1].result \in {"Ok(true)", "Ok(false)"} )
                => out = Outcome("Ok(false)", <<>>) /\ disk' = disk
          /\ out.result # "Ok(true)" => disk'.settings = disk.settings
          /\ out.result = "Ok(false)" => out.writes = <<>>
          /\ ( disk'.settings # disk.settings /\ disk.settings # None ) =>
                LET old == disk.settings[1].value
                    new == disk'.settings[1].value
                IN  /\ out.writes = <<"settings.json.bak", "settings.json">>
                    /\ disk'.backup = disk.settings
                    /\ new.type = "object"
                    /\ old.type = "object" => new.other = old.other
                    /\ DOMAIN EntriesOf(new) = DOMAIN EntriesOf(old) \cup RequiredHooks
                    /\ \A key \in DOMAIN EntriesOf(old) :
                          EntriesOf(new)[key] = EntriesOf(old)[key]
                    /\ \A key \in DOMAIN EntriesOf(new) \ DOMAIN EntriesOf(old) :
                          EntriesOf(new)[key] = "ours"
      ]_vars

\* The file had another setting, the user's own Stop hook and a hook that is
\* not of claude_hooks(): after two calls it has these and the two missing
\* hooks, the backup is the old file, and the second call returned Ok(false).
C36_Witness ==
    /\ call = [fn |-> "check_and_inject_claude_hooks", n |-> 2]
    /\ ret = Some(Outcome("Ok(false)", <<>>))
    /\ disk.backup = Some(Json(JsonObject("theme",
                         Some(HooksObject([key \in {"Stop", "PreToolUse"} |-> "user"])))))
    /\ disk.settings = Some(Json(JsonObject("theme",
                           Some(HooksObject([key \in HookKeys |->
                                  IF key \in {"Stop", "PreToolUse"} THEN "user" ELSE "ours"])))))

----------------------------------------------------------------------------
(* pricing.rs: get_model_pricing *)

\* str::contains on sequences of characters; in a model id a word and a
\* number count as one character each
contains(s, pat) ==
    \E i \in 0..(Len(s) - Len(pat)) : SubSeq(s, i + 1, i + Len(pat)) = pat

\* The model ids: a family with or without the prefix claude-, a version and
\* a date, and the empty id
ModelIds ==
    { <<>> } \cup
    { prefix \o <<family>> \o version \o date :
        prefix \in { <<>>, <<"claude", "-">> },
        family \in { "opus", "sonnet", "haiku", "gpt" },
        version \in { <<>>, <<"-", "4">>, <<"-", "4", "-", "5">>, <<"-", "4", ".", "5">>,
                       <<"-", "4", ".", "1">>, <<"-", "3">>, <<"-", "3", "-", "5">>,
                       <<"-", "3", ".", "5">>, <<"-", "3", "-", "7">>,
                       <<"-", "3", ".", "7">>, <<"-", "5">> },
        date \in { <<>>, <<"-", "20250929">> } }

\* A price in USD for a million tokens, in units of 10^-4 USD
Price(input, output) == [input |-> input, output |-> output]

Rule(patterns, price) == [patterns |-> patterns, price |-> price]

PricingRules_general_first ==
    << Rule({ <<"opus", "-", "4">>, <<"opus", "-", "4", ".", "1">> }, Price(150000, 750000)),
       Rule({ <<"opus", "-", "4", "-", "5">>, <<"opus", "-", "4", ".", "5">> },
            Price(50000, 250000)),
       Rule({ <<"sonnet", "-", "4", "-", "5">>, <<"sonnet", "-", "4", ".", "5">> },
            Price(30000, 150000)),
       Rule({ <<"sonnet", "-", "4">>, <<"sonnet", "-", "3", "-", "7">>,
              <<"sonnet", "-", "3", ".", "7">> }, Price(30000, 150000)),
       Rule({ <<"haiku", "-", "4", "-", "5">>, <<"haiku", "-", "4", ".", "5">> },
            Price(10000, 50000)),
       Rule({ <<"haiku", "-", "3", "-", "5">>, <<"haiku", "-", "3", ".", "5">> },
            Price(8000, 40000)),
       Rule({ <<"haiku", "-", "3">>, <<"haiku">> }, Price(2500, 12500)) >>

\* Lines 49-64: the arms of the match, in their order
PricingRules ==
    << Rule({ <<"opus", "-", "4", "-", "5">>, <<"opus", "-", "4", ".", "5">> },
            Price(50000, 250000)),
       Rule({ <<"opus", "-", "4">>, <<"opus", "-", "4", ".", "1">> }, Price(150000, 750000)),
       Rule({ <<"sonnet", "-", "4", "-", "5">>, <<"sonnet", "-", "4", ".", "5">> },
            Price(30000, 150000)),
       Rule({ <<"sonnet", "-", "4">>, <<"sonnet", "-", "3", "-", "7">>,
              <<"sonnet", "-", "3", ".", "7">> }, Price(30000, 150000)),
       Rule({ <<"haiku", "-", "4", "-", "5">>, <<"haiku", "-", "4", ".", "5">> },
            Price(10000, 50000)),
       Rule({ <<"haiku", "-", "3", "-", "5">>, <<"haiku", "-", "3", ".", "5">> },
            Price(8000, 40000)),
       Rule({ <<"haiku", "-", "3">>, <<"haiku">> }, Price(2500, 12500)) >>

\* Line 66: the arm `_`
DefaultPrice == Price(30000, 150000)

\* The first arm of the match whose guard holds
RECURSIVE match_model(_, _)
match_model(rules, model_id) ==
    IF rules = <<>> THEN DefaultPrice
    ELSE IF \E pat \in Head(rules).patterns : contains(model_id, pat)
    THEN Head(rules).price
    ELSE match_model(Tail(rules), model_id)

\* Lines 47-75
get_model_pricing(model_id) ==
    LET price == match_model(PricingRules, model_id) IN
    [ input          |-> price.input,
      output         |-> price.output,
      cache_write_5m |-> (price.input * 125) \div 100,
      cache_write_1h |-> price.input * 2,
      cache_read     |-> price.input \div 10 ]

CallGetModelPricing ==
    /\ Pending("get_model_pricing")
    /\ ret' = Some(get_model_pricing(call.model_id))
    /\ UNCHANGED <<monitor, disk, call>>

\* get_model_pricing is called for any model id
InitPricing ==
    /\ Unstarted
    /\ disk = NoDisk
    /\ call \in { [fn |-> "get_model_pricing", model_id |-> id] : id \in ModelIds }
    /\ ret = NoRet

SpecPricing == InitPricing /\ [][CallGetModelPricing]_vars

\* C37: for an id that contains opus-4-5 the price is 5 and 25, although
\* it contains opus-4, which without opus-4-5 and opus-4.5 gives 15 and 75;
\* an id that contains haiku-3-5 gets 0.80 and 4 and not the price of haiku;
\* an id of no family of the table gets 3 and 15; and for every id the cache
\* prices are 1.25 times, 2 times and 0.1 times the input price.
C37_MostSpecificFirst ==
    ( call.fn = "get_model_pricing" /\ ret # NoRet ) =>
      LET id == call.model_id
          p == ret[1]
          has(pat) == contains(id, pat)
      IN  /\ has(<<"opus", "-", "4", "-", "5">>)
                => has(<<"opus", "-", "4">>) /\ p.input = 50000 /\ p.output = 250000
          /\ ( has(<<"opus", "-", "4">>) /\ ~has(<<"opus", "-", "4", "-", "5">>)
                  /\ ~has(<<"opus", "-", "4", ".", "5">>) )
                => p.input = 150000 /\ p.output = 750000
          /\ has(<<"haiku", "-", "3", "-", "5">>) => p.input = 8000 /\ p.output = 40000
          /\ ( ~has(<<"opus">>) /\ ~has(<<"sonnet">>) /\ ~has(<<"haiku">>) )
                => p.input = 30000 /\ p.output = 150000
          /\ p.cache_write_5m * 100 = p.input * 125
          /\ p.cache_write_1h = p.input * 2
          /\ p.cache_read * 10 = p.input

\* The price of claude-opus-4-5-20250929 has been asked for
C37_Witness ==
    /\ call.fn = "get_model_pricing"
    /\ call.model_id = <<"claude", "-", "opus", "-", "4", "-", "5", "-", "20250929">>
    /\ ret = Some([ input |-> 50000, output |-> 250000, cache_write_5m |-> 62500,
                    cache_write_1h |-> 100000, cache_read |-> 5000 ])

----------------------------------------------------------------------------
(* claude_session.rs: parse_debug_state *)

\* A line of the debug log: whether it contains "Stream started", whether it
\* contains "idle_prompt", and its first 24 bytes as a number that orders
\* like the string; stamp is 0 when the line is shorter than 24 bytes
DebugLine(stream, idle, stamp) == [stream |-> stream, idle |-> idle, stamp |-> stamp]

DebugLines == { DebugLine(s, i, t) : s \in BOOLEAN, i \in BOOLEAN, t \in 0..2 }

DebugLogs == UNION { [1..n -> DebugLines] : n \in 0..MaxLogLines }

\* Lines 312-327: lines.iter().rev().take(50), with the two first finds
RECURSIVE scan_debug(_, _, _, _)
scan_debug(lines, taken, stream, idle) ==
    IF lines = <<>> \/ taken = ScanWindow THEN [stream |-> stream, idle |-> idle]
    ELSE LET line == lines[Len(lines)]
             s == IF stream = None /\ line.stream /\ line.stamp # 0
                  THEN Some(line.stamp) ELSE stream
             i == IF idle = None /\ line.idle /\ line.stamp # 0
                  THEN Some(line.stamp) ELSE idle
         IN  IF s # None /\ i # None
             THEN [stream |-> s, idle |-> i]
             ELSE scan_debug(SubSeq(lines, 1, Len(lines) - 1), taken + 1, s, i)

debug_state_inclusive(stream, idle) ==
    [ is_streaming |-> IF stream # None /\ idle # None THEN stream[1] >= idle[1]
                       ELSE stream # None,
      is_idle      |-> IF stream # None /\ idle # None THEN idle[1] >= stream[1]
                       ELSE idle # None ]

\* Lines 330-342: the two matches on (last_stream_time, last_idle_time)
debug_state(stream, idle) ==
    [ is_streaming |-> IF stream # None /\ idle # None THEN stream[1] > idle[1]
                       ELSE stream # None,
      is_idle      |-> IF stream # None /\ idle # None THEN idle[1] > stream[1]
                       ELSE idle # None ]

\* Lines 295-345; file is None when the debug file cannot be opened
parse_debug_state(file) ==
    IF file = None THEN [ok |-> FALSE, is_streaming |-> FALSE, is_idle |-> FALSE]
    ELSE LET found == scan_debug(file[1], 0, None, None)
             state == debug_state(found.stream, found.idle)
         IN  [ok |-> TRUE, is_streaming |-> state.is_streaming, is_idle |-> state.is_idle]

CallParseDebugState ==
    /\ Pending("parse_debug_state")
    /\ ret' = Some(parse_debug_state(call.file))
    /\ UNCHANGED <<monitor, disk, call>>

\* parse_debug_state is called for any debug log, or for none
InitDebug ==
    /\ Unstarted
    /\ disk = NoDisk
    /\ call \in { [fn |-> "parse_debug_state", file |-> f] :
                    f \in {None} \cup { Some(l) : l \in DebugLogs } }
    /\ ret = NoRet

SpecDebug == InitDebug /\ [][CallParseDebugState]_vars

\* The stamp of the last line, among the last ScanWindow lines, that has the
\* event and a stamp; 0 when there is none
LastEvent(lines, event) ==
    LET window == { k \in 1..Len(lines) : k > Len(lines) - ScanWindow }
        hits == { k \in window : lines[k][event] /\ lines[k].stamp # 0 }
    IN  IF hits = {} THEN 0
        ELSE lines[CHOOSE k \in hits : \A j \in hits : j <= k].stamp

\* C38: parse_debug_state never returns is_streaming and is_idle both true;
\* when it found one kind of event only, or found both with different
\* stamps, exactly one of the two is true (the one found, or the one with the
\* later stamp); when it found none, or both with the same stamp, both are
\* false.
C38_NeverStreamingAndIdle ==
    ( call.fn = "parse_debug_state" /\ ret # NoRet /\ ret[1].ok ) =>
      LET r == ret[1]
          stream == LastEvent(call.file[1], "stream")
          idle == LastEvent(call.file[1], "idle")
      IN  /\ ~(r.is_streaming /\ r.is_idle)
          /\ stream # idle => (r.is_streaming # r.is_idle)
          /\ stream > idle => r.is_streaming
          /\ idle > stream => r.is_idle
          /\ stream = idle => ~r.is_streaming /\ ~r.is_idle

\* The last line of the log has both events, with one stamp: the state is
\* neither streaming nor idle
C38_Witness ==
    /\ call.fn = "parse_debug_state"
    /\ call.file # None
    /\ Len(call.file[1]) = 2
    /\ call.file[1][1] = DebugLine(TRUE, FALSE, 1)
    /\ call.file[1][2] = DebugLine(TRUE, TRUE, 2)
    /\ ret = Some([ok |-> TRUE, is_streaming |-> FALSE, is_idle |-> FALSE])

----------------------------------------------------------------------------
(* pricing.rs: calculate_session_cost *)

\* JsonlUsage and CacheCreation (lines 79-91); a field is None when the
\* line does not have it
JsonlUsage(input, output, cache_creation_input, cache_read, cache_creation) ==
    [ input_tokens                |-> input,
      output_tokens               |-> output,
      cache_creation_input_tokens |-> cache_creation_input,
      cache_read_input_tokens     |-> cache_read,
      cache_creation              |-> cache_creation ]

CacheCreation(m5, h1) ==
    [ephemeral_5m_input_tokens |-> m5, ephemeral_1h_input_tokens |-> h1]

\* JsonlEntry with its JsonlMessage (lines 93-102); model is the empty
\* sequence when the message has none or an empty one
Entry(model, usage) == Some([model |-> model, usage |-> usage])

OpusId == <<"claude", "-", "opus", "-", "4", "-", "5">>
HaikuId == <<"claude", "-", "haiku", "-", "3">>

\* A line of the log: its text, the hash DefaultHasher gives for the text,
\* and what serde_json::from_str makes of it: kind is "empty", "malformed"
\* (no JsonlEntry) or "json", message is None when the entry has none
LogLine(text, hash, kind, message) ==
    [text |-> text, hash |-> hash, kind |-> kind, message |-> message]

\* The texts a log can have.  "final" and "final " differ in a blank only;
\* "clash" has the hash of "final"
LogLines ==
    { LogLine("", 0, "empty", None),
      LogLine("garbage", 1, "malformed", None),
      LogLine("no message", 2, "json", None),
      LogLine("final", 3, "json",
              Entry(OpusId, Some(JsonlUsage(Some(10), Some(5), Some(9), Some(2),
                                            Some(CacheCreation(Some(3), Some(4))))))),
      LogLine("final ", 4, "json",
              Entry(OpusId, Some(JsonlUsage(Some(10), Some(5), Some(9), Some(2),
                                            Some(CacheCreation(Some(3), Some(4))))))),
      LogLine("clash", 3, "json",
              Entry(<<>>, Some(JsonlUsage(Some(1), Some(1), None, None, None)))),
      LogLine("partial", 5, "json",
              Entry(<<>>, Some(JsonlUsage(Some(7), Some(0), Some(6), Some(8), None)))),
      LogLine("no output", 6, "json",
              Entry(<<>>, Some(JsonlUsage(Some(7), None, None, None, None)))),
      LogLine("model only", 7, "json", Entry(HaikuId, None)),
      LogLine("old cache", 8, "json",
              Entry(<<>>, Some(JsonlUsage(None, Some(1), Some(6), None, None)))) }

SessionLogs == UNION { [1..n -> LogLines] : n \in 0..MaxLogLines }

\* TokenUsage::default() of pricing.rs
NoTokens ==
    [ input_tokens |-> 0, output_tokens |-> 0, cache_creation_5m_tokens |-> 0,
      cache_creation_1h_tokens |-> 0, cache_read_tokens |-> 0 ]

\* Lines 14-20: TokenUsage::total
total(usage) ==
    usage.input_tokens + usage.cache_creation_5m_tokens + usage.cache_creation_1h_tokens
      + usage.cache_read_tokens + usage.output_tokens

\* Lines 162-175: the usage of one entry is added
add_usage(usage, u) ==
    IF OrZero(u.output_tokens) > 0
    THEN [ input_tokens  |-> usage.input_tokens + OrZero(u.input_tokens),
           output_tokens |-> usage.output_tokens + OrZero(u.output_tokens),
           cache_read_tokens |-> usage.cache_read_tokens + OrZero(u.cache_read_input_tokens),
           cache_creation_5m_tokens |->
             usage.cache_creation_5m_tokens
               + (IF u.cache_creation # None
                  THEN OrZero(u.cache_creation[1].ephemeral_5m_input_tokens)
                  ELSE OrZero(u.cache_creation_input_tokens)),
           cache_creation_1h_tokens |->
             usage.cache_creation_1h_tokens
               + (IF u.cache_creation # None
                  THEN OrZero(u.cache_creation[1].ephemeral_1h_input_tokens)
                  ELSE 0) ]
    ELSE usage

is_duplicate_never(seen_entries, line) == FALSE

\* Lines 143-152: the hash of the line is in seen_entries
is_duplicate(seen_entries, line) == line.hash \in seen_entries

\* Lines 136-178: the loop over the lines; acc is [usage, model, seen_entries]
RECURSIVE scan_session(_, _)
scan_session(acc, lines) ==
    IF lines = <<>> THEN acc
    ELSE LET line == Head(lines)
             next ==
               IF line.kind = "empty" \/ is_duplicate(acc.seen_entries, line) THEN acc
               ELSE LET seen == acc.seen_entries \cup {line.hash} IN
                    IF line.kind # "json" \/ line.message = None
                    THEN [acc EXCEPT !.seen_entries = seen]
                    ELSE LET msg == line.message[1] IN
                         [ seen_entries |-> seen,
                           model |-> IF msg.model # <<>> THEN msg.model ELSE acc.model,
                           usage |-> IF msg.usage # None
                                     THEN add_usage(acc.usage, msg.usage[1])
                                     ELSE acc.usage ]
         IN  scan_session(next, Tail(lines))

\* Lines 28-43: ModelPricing::calculate_cost, in units of 10^-10 USD
calculate_cost(pricing, usage) ==
    usage.input_tokens * pricing.input
      + usage.output_tokens * pricing.output
      + usage.cache_creation_5m_tokens * pricing.cache_write_5m
      + usage.cache_creation_1h_tokens * pricing.cache_write_1h
      + usage.cache_read_tokens * pricing.cache_read

\* Lines 113-192; file is None when the log cannot be opened, else the lines
\* from the position the scan starts at
calculate_session_cost(file) ==
    IF file = None THEN None
    ELSE LET acc == scan_session([usage |-> NoTokens, model |-> <<>>, seen_entries |-> {}],
                                 file[1])
         IN  IF acc.model = <<>> /\ total(acc.usage) = 0 THEN None
             ELSE Some([ model |-> acc.model,
                         usage |-> acc.usage,
                         cost_usd |-> calculate_cost(get_model_pricing(acc.model),
                                                     acc.usage) ])

CallCalculateSessionCost ==
    /\ Pending("calculate_session_cost")
    /\ ret' = Some(calculate_session_cost(call.file))
    /\ UNCHANGED <<monitor, disk, call>>

\* calculate_session_cost is called for any log, or for none
InitSession ==
    /\ Unstarted
    /\ disk = NoDisk
    /\ call \in { [fn |-> "calculate_session_cost", file |-> f] :
                    f \in {None} \cup { Some(l) : l \in SessionLogs } }
    /\ ret = NoRet

SpecSession == InitSession /\ [][CallCalculateSessionCost]_vars

\* The lines of a log that have a usage with output_tokens above 0, each
\* text once
FinalLines(lines) ==
    { l \in { lines[k] : k \in 1..Len(lines) } :
        /\ l.kind = "json" /\ l.message # None /\ l.message[1].usage # None
        /\ l.message[1].usage[1].output_tokens # None
        /\ l.message[1].usage[1].output_tokens[1] > 0 }

\* The sum of the values function f has on the set S
RECURSIVE SumOver(_, _)
SumOver(S, f) ==
    IF S = {} THEN 0
    ELSE LET x == CHOOSE y \in S : TRUE IN f[x] + SumOver(S \ {x}, f)

\* No two texts of the log have one hash
NoClash(lines) ==
    \A j, k \in 1..Len(lines) : lines[j].hash = lines[k].hash => lines[j].text = lines[k].text

\* C39: the input and output tokens calculate_session_cost returns are at
\* most the sums over the distinct lines that have a usage with
\* output_tokens above 0, each line counted once however often it is in the
\* log, and are these sums when no two lines have one hash; and it returns
\* none when no line has a model and no such usage is there.
C39_DistinctFinalLinesOnce ==
    ( call.fn = "calculate_session_cost" /\ ret # NoRet /\ call.file # None ) =>
      LET lines == call.file[1]
          finals == FinalLines(lines)
          inputs == [l \in finals |-> OrZero(l.message[1].usage[1].input_tokens)]
          outputs == [l \in finals |-> OrZero(l.message[1].usage[1].output_tokens)]
          result == ret[1]
          usage == IF result = None THEN NoTokens ELSE result[1].usage
          models == { k \in 1..Len(lines) :
                        lines[k].message # None /\ lines[k].message[1].model # <<>> }
      IN  /\ usage.input_tokens <= SumOver(finals, inputs)
          /\ usage.output_tokens <= SumOver(finals, outputs)
          /\ NoClash(lines) =>
                /\ usage.input_tokens = SumOver(finals, inputs)
                /\ usage.output_tokens = SumOver(finals, outputs)
          /\ finals = {} => total(usage) = 0
          /\ ( models = {} /\ finals = {} ) => result = None

\* A log of the same final line three times: its tokens are counted once
C39_Witness ==
    /\ call.fn = "calculate_session_cost"
    /\ call.file # None
    /\ Len(call.file[1]) = 3
    /\ \A k \in 1..3 : call.file[1][k].text = "final"
    /\ ret # NoRet
    /\ ret[1] # None
    /\ ret[1][1].usage = [ input_tokens |-> 10, output_tokens |-> 5,
                           cache_creation_5m_tokens |-> 3, cache_creation_1h_tokens |-> 4,
                           cache_read_tokens |-> 2 ]
    /\ ret[1][1].model = OpusId

====
